---- MODULE Spec2Model ----
(***************************************************************************)
(* KidBookAI: the illustration continuity engine (src/pipeline/continuity  *)
(* .py), the continuity config assembly (src/pipeline/continuity_builder   *)
(* .py) and the story package serialization (src/pipeline/pipeline.py).    *)
(*                                                                         *)
(* Strings are sequences of one-character strings, so that trimming,       *)
(* splitting and lower-casing are computed, not assumed.  Python's None    *)
(* for an optional integer or flag is the empty sequence and a value x is  *)
(* <<x>>.  An optional string that the code only tests for truthiness is   *)
(* the empty string when it is None.  A character outside ASCII is written *)
(* by name: "<bullet>", "<emdash>", "<ellipsis>".                          *)
(***************************************************************************)
EXTENDS Integers, Sequences, FiniteSets, TLC

VARIABLES
    config,                 \* IllustrationContinuityState._config
    profile,                \* IllustrationContinuityState._profile
    base_reference_image,   \* IllustrationContinuityState._base_reference_image
    reference_history,      \* IllustrationContinuityState._reference_history
    supporting_history,     \* IllustrationContinuityState._supporting_history
    identity_notes,         \* IllustrationContinuityState._identity_notes
    base_seed,              \* IllustrationContinuityState._base_seed
    digest,                 \* the blake2b digest of this profile and image
    directives,             \* the value build_directives returned last
    current_scene,          \* the scene build_directives was called with last
    seed,                   \* the value seed_for_page returned last
    calls,                  \* the record_generation calls made, latest first
    original,               \* the StoryPackage that was serialized, if any
    payload,                \* the mapping handed to StoryPackage.from_dict
    package,                \* what StoryPackage.from_dict returned or raised
    files,                  \* the paths whose bytes can be read
    arguments,              \* the arguments of build_illustration_continuity_config
    extraction,             \* what extract_identity_notes returned or raised
    assembly,               \* what build_illustration_continuity_config returned
    inputs,                 \* the arguments and collaborator responses of a run
    runs,                   \* the orchestrator runs, each by its position and locals
    call,                   \* a function of the repository and the arguments it is called with
    outcome                 \* what that call returned or raised

vars == <<config, profile, base_reference_image, reference_history,
          supporting_history, identity_notes, base_seed, digest, directives,
          current_scene, seed, calls, original, payload, package, files, arguments,
          extraction, assembly, inputs, runs, call, outcome>>

-----------------------------------------------------------------------------
(* Bounds of the model.                                                    *)

MaxCalls == 3
MaxHistorySize == 2
MaxPage == 3
MaxPayloadPages == 3

-----------------------------------------------------------------------------
(* Python values.                                                          *)

None == <<>>
Some(x) == <<x>>
IsNone(v) == v = <<>>
Value(v) == v[1]

Max(a, b) == IF a >= b THEN a ELSE b

Whitespace == {" ", "\t", "\n", "\r"}

\* str.lstrip(chars): from the first character outside chars
LStripChars(text, chars) ==
    IF \A i \in 1..Len(text) : text[i] \in chars THEN <<>>
    ELSE SubSeq(text,
                CHOOSE i \in 1..Len(text) :
                    /\ text[i] \notin chars
                    /\ \A j \in 1..(i - 1) : text[j] \in chars,
                Len(text))

\* str.rstrip(chars): up to the last character outside chars
RStripChars(text, chars) ==
    IF \A i \in 1..Len(text) : text[i] \in chars THEN <<>>
    ELSE SubSeq(text, 1,
                CHOOSE i \in 1..Len(text) :
                    /\ text[i] \notin chars
                    /\ \A j \in (i + 1)..Len(text) : text[j] \in chars)

\* str.strip(chars)
StripChars(text, chars) == RStripChars(LStripChars(text, chars), chars)

\* str.strip()
Strip(text) == StripChars(text, Whitespace)

\* str.rstrip()
RStrip(text) == RStripChars(text, Whitespace)

UpperLetters ==
    <<"A", "B", "C", "D", "E", "F", "G", "H", "I", "J", "K", "L", "M",
      "N", "O", "P", "Q", "R", "S", "T", "U", "V", "W", "X", "Y", "Z">>

LowerLetters ==
    <<"a", "b", "c", "d", "e", "f", "g", "h", "i", "j", "k", "l", "m",
      "n", "o", "p", "q", "r", "s", "t", "u", "v", "w", "x", "y", "z">>

LowerChar(c) ==
    IF \E i \in 1..Len(UpperLetters) : UpperLetters[i] = c
    THEN LowerLetters[CHOOSE i \in 1..Len(UpperLetters) : UpperLetters[i] = c]
    ELSE c

\* str.lower()
Lower(text) == [i \in 1..Len(text) |-> LowerChar(text[i])]

\* text.replace("\r", "\n")
ReplaceCR(text) == [i \in 1..Len(text) |-> IF text[i] = "\r" THEN "\n" ELSE text[i]]

\* text.split("\n"): the pieces between the newlines, empty pieces kept
RECURSIVE SplitLines(_)
SplitLines(text) ==
    IF \A i \in 1..Len(text) : text[i] # "\n" THEN <<text>>
    ELSE LET first == CHOOSE i \in 1..Len(text) :
                          /\ text[i] = "\n"
                          /\ \A j \in 1..(i - 1) : text[j] # "\n"
         IN  <<SubSeq(text, 1, first - 1)>>
             \o SplitLines(SubSeq(text, first + 1, Len(text)))

\* "\n".join(lines)
RECURSIVE JoinLines(_)
JoinLines(lines) ==
    IF lines = <<>> THEN <<>>
    ELSE IF Len(lines) = 1 THEN lines[1]
         ELSE lines[1] \o <<"\n">> \o JoinLines(Tail(lines))

\* filter(None, items): the truthy (non-empty) strings, in order
RECURSIVE FilterNone(_)
FilterNone(items) ==
    IF items = <<>> THEN <<>>
    ELSE IF Head(items) = <<>> THEN FilterNone(Tail(items))
         ELSE <<Head(items)>> \o FilterNone(Tail(items))

\* x in items
In(x, items) == \E i \in 1..Len(items) : items[i] = x

\* text.startswith(prefix)
StartsWith(text, prefix) ==
    /\ Len(text) >= Len(prefix)
    /\ SubSeq(text, 1, Len(prefix)) = prefix

-----------------------------------------------------------------------------
(* IllustrationContinuityConfig and KidProfile.                            *)

\* IllustrationContinuityConfig(): the dataclass defaults
DefaultConfig ==
    [identity_notes |-> <<>>,
     supporting_character_notes |-> <<>>,
     static_continuity_notes |-> <<>>,
     carry_reference_image_forward |-> FALSE,
     reference_history_size |-> 0,
     reference_history_parameter |-> <<>>,
     promote_latest_reference |-> FALSE,
     propagate_supporting_details |-> TRUE,
     supporting_details_history |-> 2,
     locked_seed |-> None,
     auto_seed |-> TRUE,
     vary_seed_per_page |-> FALSE]

\* KidProfile.context_bullets for a profile holding a name, optional identity
\* traits and continuity notes, and the default story language (the other
\* optional fields absent)
RECURSIVE ContinuityNoteBullets(_)
ContinuityNoteBullets(notes) ==
    IF notes = <<>> THEN <<>>
    ELSE <<(<<"C", ":", " ">> \o Head(notes))>> \o ContinuityNoteBullets(Tail(notes))

context_bullets(p) ==
    <<(<<"N", ":", " ">> \o p.name)>>
    \o (IF p.identity_traits # <<>>
        THEN <<(<<"I", ":", " ">> \o p.identity_traits)>> ELSE <<>>)
    \o ContinuityNoteBullets(p.continuity_notes)
    \o <<(<<"L", ":", " ">> \o p.story_language)>>

RECURSIVE StripEach(_)
StripEach(lines) ==
    IF lines = <<>> THEN <<>>
    ELSE <<Strip(Head(lines))>> \o StripEach(Tail(lines))

\* IllustrationContinuityState._format_identity_notes
format_identity_notes(p) ==
    LET lines == FilterNone(StripEach(context_bullets(p)))
    IN  IF lines = <<>> THEN <<>> ELSE JoinLines(lines)

-----------------------------------------------------------------------------
(* Seeds.                                                                  *)

SEED_MOD == 2147483647

\* IllustrationContinuityState._derive_consistent_seed: the digest of the
\* profile and the reference image, reduced; d is that digest
derive_consistent_seed(d) ==
    LET s == d % SEED_MOD IN IF s = 0 THEN 1 ELSE s

\* the base seed derived whether or not automatic seeding is enabled
InitBaseSeedAutoIgnored(cfg, d) ==
    IF ~IsNone(cfg.locked_seed)
    THEN LET s == Value(cfg.locked_seed) % SEED_MOD
         IN  Some(IF s = 0 THEN 1 ELSE s)
    ELSE Some(derive_consistent_seed(d))

\* __init__, the seed part: the base seed of a state built from cfg
InitBaseSeed(cfg, d) ==
    IF ~IsNone(cfg.locked_seed)
    THEN LET s == Value(cfg.locked_seed) % SEED_MOD
         IN  Some(IF s = 0 THEN 1 ELSE s)
    ELSE IF cfg.auto_seed
         THEN Some(derive_consistent_seed(d))
         ELSE None

\* (base + offset) % SEED_MOD for 0 <= base < SEED_MOD and 0 <= offset <
\* SEED_MOD, computed without leaving the 32-bit integers of the checker
AddMod(base, offset) ==
    IF base >= SEED_MOD - offset
    THEN base - (SEED_MOD - offset)
    ELSE base + offset

seed_for_page_offset_by_one(cfg, bseed, page_number) ==
    IF IsNone(bseed) THEN None
    ELSE IF ~IsNone(cfg.locked_seed) THEN bseed
    ELSE IF cfg.vary_seed_per_page
         THEN LET offset == Max(page_number, 0)
                  s == AddMod(Value(bseed), offset)
              IN  IF s <= 0
                  THEN Some(IF Value(bseed) # 0 THEN Value(bseed) ELSE 1)
                  ELSE Some(s)
         ELSE bseed

seed_for_page_zero_kept(cfg, bseed, page_number) ==
    IF IsNone(bseed) THEN None
    ELSE IF ~IsNone(cfg.locked_seed) THEN bseed
    ELSE IF cfg.vary_seed_per_page
         THEN Some(AddMod(Value(bseed), Max(page_number - 1, 0)))
         ELSE bseed

seed_for_page_lock_ignored(cfg, bseed, page_number) ==
    IF IsNone(bseed) THEN None
    ELSE IF cfg.vary_seed_per_page
         THEN LET offset == Max(page_number - 1, 0)
                  s == AddMod(Value(bseed), offset)
              IN  IF s <= 0
                  THEN Some(IF Value(bseed) # 0 THEN Value(bseed) ELSE 1)
                  ELSE Some(s)
         ELSE bseed

\* IllustrationContinuityState.seed_for_page
seed_for_page(cfg, bseed, page_number) ==
    IF IsNone(bseed) THEN None
    ELSE IF ~IsNone(cfg.locked_seed) THEN bseed
    ELSE IF cfg.vary_seed_per_page
         THEN LET offset == Max(page_number - 1, 0)
                  s == AddMod(Value(bseed), offset)
              IN  IF s <= 0
                  THEN Some(IF Value(bseed) # 0 THEN Value(bseed) ELSE 1)
                  ELSE Some(s)
         ELSE bseed

-----------------------------------------------------------------------------
(* IllustrationContinuityState.                                            *)

\* IllustrationContinuityState._sanitize
sanitize(value) == Strip(value)

BulletChars == {" ", "\t", "-", "<bullet>", "<emdash>"}

SummaryLimit == 220
SummaryKeep == 217

RECURSIVE CleanLines(_)
CleanLines(pieces) ==
    IF pieces = <<>> THEN <<>>
    ELSE LET cleaned == StripChars(Head(pieces), BulletChars)
         IN  (IF cleaned # <<>> THEN <<cleaned>> ELSE <<>>) \o CleanLines(Tail(pieces))

RECURSIVE Summaries(_)
Summaries(lines) ==
    IF lines = <<>> THEN <<>>
    ELSE LET line == Head(lines)
         IN  <<(IF Len(line) > SummaryLimit
                THEN RStrip(SubSeq(line, 1, SummaryKeep)) \o <<"<ellipsis>">>
                ELSE line)>> \o Summaries(Tail(lines))

\* IllustrationContinuityState._summarize_supporting_details
summarize_supporting_details(details) ==
    IF details = <<>> THEN <<>>
    ELSE LET cleaned == CleanLines(SplitLines(ReplaceCR(details)))
             normalized == IF cleaned = <<>> THEN <<Strip(details)>> ELSE cleaned
         IN  Summaries(normalized)

\* __init__: deque(maxlen=history_size or None)
ReferenceHistoryMaxlen(cfg) ==
    LET history_size == Max(0, cfg.reference_history_size)
    IN  IF history_size = 0 THEN None ELSE Some(history_size)

\* __init__: deque(maxlen=supporting_history_size)
SupportingHistoryMaxlen(cfg) == Some(Max(0, cfg.supporting_details_history))

\* collections.deque.appendleft on a deque of the given maxlen
AppendLeft(dq, x, maxlen) ==
    IF IsNone(maxlen) THEN <<x>> \o dq
    ELSE IF Value(maxlen) = 0 THEN dq
    ELSE IF Len(dq) >= Value(maxlen)
         THEN <<x>> \o SubSeq(dq, 1, Value(maxlen) - 1)
         ELSE <<x>> \o dq

RECURSIVE SanitizeEach(_)
SanitizeEach(notes) ==
    IF notes = <<>> THEN <<>>
    ELSE <<sanitize(Head(notes))>> \o SanitizeEach(Tail(notes))

RECURSIVE AppendNovel(_, _)
AppendNovel(notes, current) ==
    IF current = <<>> THEN notes
    ELSE LET note == Head(current)
         IN  AppendNovel(IF note # <<>> /\ ~In(note, notes)
                         THEN Append(notes, note) ELSE notes,
                         Tail(current))

\* the continuity notes with the supporting history ahead of the static notes
ContinuityNotesHistoryFirst(cfg, supp_hist, scene) ==
    LET static_notes == FilterNone(SanitizeEach(cfg.static_continuity_notes))
        propagated == IF cfg.propagate_supporting_details
                      THEN supp_hist \o static_notes ELSE static_notes
        current_supporting == summarize_supporting_details(scene.supporting_details)
    IN  FilterNone(AppendNovel(propagated, current_supporting))

\* build_directives, the continuity notes
ContinuityNotes(cfg, supp_hist, scene) ==
    LET static_notes == FilterNone(SanitizeEach(cfg.static_continuity_notes))
        propagated == IF cfg.propagate_supporting_details
                      THEN static_notes \o supp_hist ELSE static_notes
        current_supporting == summarize_supporting_details(scene.supporting_details)
    IN  FilterNone(AppendNovel(propagated, current_supporting))

RECURSIVE CastNotes(_)
CastNotes(pairs) ==
    IF pairs = <<>> THEN <<>>
    ELSE LET name == Head(pairs)[1]
             details == Head(pairs)[2]
         IN  (IF sanitize(name) # <<>> /\ sanitize(details) # <<>>
              THEN <<(name \o <<":", " ">> \o details)>> ELSE <<>>)
             \o CastNotes(Tail(pairs))

SelectReferencesBaseDropped(cfg, base, ref_hist) ==
    IF cfg.carry_reference_image_forward
    THEN IF cfg.promote_latest_reference /\ ref_hist # <<>>
         THEN [primary |-> Head(ref_hist), additional |-> Tail(ref_hist)]
         ELSE [primary |-> base, additional |-> ref_hist]
    ELSE [primary |-> base, additional |-> <<>>]

\* the reference selection that promotes whatever the promotion flag says
SelectReferencesAlwaysPromoted(cfg, base, ref_hist) ==
    IF cfg.carry_reference_image_forward
    THEN IF ref_hist # <<>>
         THEN [primary |-> Head(ref_hist),
               additional |-> IF ~In(base, Tail(ref_hist))
                              THEN Append(Tail(ref_hist), base)
                              ELSE Tail(ref_hist)]
         ELSE [primary |-> base, additional |-> ref_hist]
    ELSE [primary |-> base, additional |-> <<>>]

\* build_directives, the reference selection
SelectReferences(cfg, base, ref_hist) ==
    IF cfg.carry_reference_image_forward
    THEN IF cfg.promote_latest_reference /\ ref_hist # <<>>
         THEN [primary |-> Head(ref_hist),
               additional |-> IF ~In(base, Tail(ref_hist))
                              THEN Append(Tail(ref_hist), base)
                              ELSE Tail(ref_hist)]
         ELSE [primary |-> base, additional |-> ref_hist]
    ELSE [primary |-> base, additional |-> <<>>]

\* the directives with identity notes made anew for the page: the scene's
\* details follow the identity text
build_directives_identity_per_page(cfg, base, ref_hist, supp_hist, ident, bseed, scene, page_number) ==
    LET refs == SelectReferences(cfg, base, ref_hist)
    IN  [primary_reference_image |-> refs.primary,
         additional_reference_images |-> refs.additional,
         identity_notes |-> sanitize(ident \o scene.supporting_details),
         continuity_notes |-> ContinuityNotes(cfg, supp_hist, scene),
         supporting_cast_notes |-> CastNotes(cfg.supporting_character_notes),
         reference_history_parameter |->
             IF cfg.carry_reference_image_forward
             THEN cfg.reference_history_parameter ELSE <<>>,
         model_overrides |-> [seed |-> seed_for_page(cfg, bseed, page_number)]]

\* IllustrationContinuityState.build_directives
build_directives(cfg, base, ref_hist, supp_hist, ident, bseed, scene, page_number) ==
    LET refs == SelectReferences(cfg, base, ref_hist)
    IN  [primary_reference_image |-> refs.primary,
         additional_reference_images |-> refs.additional,
         identity_notes |-> sanitize(ident),
         continuity_notes |-> ContinuityNotes(cfg, supp_hist, scene),
         supporting_cast_notes |-> CastNotes(cfg.supporting_character_notes),
         reference_history_parameter |->
             IF cfg.carry_reference_image_forward
             THEN cfg.reference_history_parameter ELSE <<>>,
         model_overrides |-> [seed |-> seed_for_page(cfg, bseed, page_number)]]

RECURSIVE PushNovel(_, _, _)
PushNovel(hist, notes, maxlen) ==
    IF notes = <<>> THEN hist
    ELSE LET note == Head(notes)
         IN  PushNovel(IF note # <<>> /\ ~In(note, hist)
                       THEN AppendLeft(hist, note, maxlen) ELSE hist,
                       Tail(notes), maxlen)

\* the supporting history fed with the first note of the scene only
RecordSupportingFirstOnly(cfg, supp_hist, scene) ==
    IF cfg.propagate_supporting_details
    THEN LET notes == summarize_supporting_details(scene.supporting_details)
         IN  PushNovel(supp_hist,
                       IF notes = <<>> THEN <<>> ELSE <<Head(notes)>>,
                       SupportingHistoryMaxlen(cfg))
    ELSE supp_hist

\* the supporting history kept in a deque that has no maxlen
RecordSupportingUnbounded(cfg, supp_hist, scene) ==
    IF cfg.propagate_supporting_details
    THEN PushNovel(supp_hist, summarize_supporting_details(scene.supporting_details),
                   None)
    ELSE supp_hist

\* record_generation, the supporting-history part
RecordSupporting(cfg, supp_hist, scene) ==
    IF cfg.propagate_supporting_details
    THEN PushNovel(supp_hist, summarize_supporting_details(scene.supporting_details),
                   SupportingHistoryMaxlen(cfg))
    ELSE supp_hist

RECURSIVE FirstUrl(_)
FirstUrl(image_outputs) ==
    IF image_outputs = <<>> THEN <<>>
    ELSE IF sanitize(Head(image_outputs)) # <<>> THEN sanitize(Head(image_outputs))
         ELSE FirstUrl(Tail(image_outputs))

RECURSIVE FirstCandidate(_)
FirstCandidate(image_outputs) ==
    IF image_outputs = <<>> THEN <<>>
    ELSE IF sanitize(Head(image_outputs)) # <<>> THEN Head(image_outputs)
         ELSE FirstCandidate(Tail(image_outputs))

RecordReferenceRaw(cfg, ref_hist, image_outputs) ==
    IF ~cfg.carry_reference_image_forward THEN ref_hist
    ELSE LET url == FirstCandidate(image_outputs)
         IN  IF url # <<>> /\ ~In(url, ref_hist)
             THEN AppendLeft(ref_hist, url, ReferenceHistoryMaxlen(cfg))
             ELSE ref_hist

RecordReferenceAppendRight(cfg, ref_hist, image_outputs) ==
    IF ~cfg.carry_reference_image_forward THEN ref_hist
    ELSE LET url == FirstUrl(image_outputs)
             maxlen == ReferenceHistoryMaxlen(cfg)
         IN  IF url # <<>> /\ ~In(url, ref_hist)
             THEN IF ~IsNone(maxlen) /\ Len(ref_hist) >= Value(maxlen)
                  THEN Append(Tail(ref_hist), url)
                  ELSE Append(ref_hist, url)
             ELSE ref_hist

\* the reference history fed whether or not history-carrying is enabled
RecordReferenceCarryIgnored(cfg, ref_hist, image_outputs) ==
    LET url == FirstUrl(image_outputs)
    IN  IF url # <<>> /\ ~In(url, ref_hist)
        THEN AppendLeft(ref_hist, url, ReferenceHistoryMaxlen(cfg))
        ELSE ref_hist

RECURSIVE PushEach(_, _, _)
PushEach(ref_hist, image_outputs, maxlen) ==
    IF image_outputs = <<>> THEN ref_hist
    ELSE LET url == sanitize(Head(image_outputs))
         IN  PushEach(IF url # <<>> /\ ~In(url, ref_hist)
                      THEN AppendLeft(ref_hist, url, maxlen) ELSE ref_hist,
                      Tail(image_outputs), maxlen)

\* the reference history fed with every output of the page: the loop
\* without its break
RecordReferenceEveryOutput(cfg, ref_hist, image_outputs) ==
    IF ~cfg.carry_reference_image_forward THEN ref_hist
    ELSE PushEach(ref_hist, image_outputs, ReferenceHistoryMaxlen(cfg))

\* record_generation, the reference-history part
RecordReference(cfg, ref_hist, image_outputs) ==
    IF ~cfg.carry_reference_image_forward THEN ref_hist
    ELSE LET url == FirstUrl(image_outputs)
         IN  IF url # <<>> /\ ~In(url, ref_hist)
             THEN AppendLeft(ref_hist, url, ReferenceHistoryMaxlen(cfg))
             ELSE ref_hist

-----------------------------------------------------------------------------
(* Identity extraction: extract_identity_notes and its helpers.  The       *)
(* completion callable is given by its response: it raises, or returns a   *)
(* text.  readable is the set of paths whose bytes can be read.            *)

WordChars ==
    { LowerLetters[i] : i \in 1..Len(LowerLetters) }
    \cup { UpperLetters[i] : i \in 1..Len(UpperLetters) }
    \cup {"0", "1", "2", "3", "4", "5", "6", "7", "8", "9", "_"}

\* _NON_PHYSICAL_PATTERN, its word list abridged to two of its words
NonPhysicalWords == { <<"h", "a", "t">>, <<"c", "a", "p">> }

\* _NON_PHYSICAL_PATTERN.search(line): one of the words, ignoring case,
\* between word boundaries
NonPhysicalSearch(line) ==
    \E w \in NonPhysicalWords :
        \E i \in 1..(Len(line) - Len(w) + 1) :
            /\ SubSeq(Lower(line), i, i + Len(w) - 1) = w
            /\ (i = 1 \/ line[i - 1] \notin WordChars)
            /\ (i + Len(w) > Len(line) \/ line[i + Len(w)] \notin WordChars)

RECURSIVE FilterPhysicalLines(_)
FilterPhysicalLines(raw_lines) ==
    IF raw_lines = <<>> THEN <<>>
    ELSE LET stripped == Strip(Head(raw_lines))
             normalized == Strip(LStripChars(stripped, {"-", "<bullet>"}))
         IN  (IF stripped = <<>> \/ normalized = <<>> \/ NonPhysicalSearch(normalized)
              THEN <<>>
              ELSE <<(<<"-", " ">> \o normalized)>>)
             \o FilterPhysicalLines(Tail(raw_lines))

\* _filter_physical_identity_notes
filter_physical_identity_notes(notes) ==
    JoinLines(FilterPhysicalLines(SplitLines(ReplaceCR(notes))))

UrlPrefixes ==
    { <<"h", "t", "t", "p", ":", "/", "/">>,
      <<"h", "t", "t", "p", "s", ":", "/", "/">>,
      <<"d", "a", "t", "a", ":">> }

\* _normalize_image_input: a URL as it is, a local file read and encoded
\* (OSError when it cannot be read)
normalize_image_input(reference_image, readable) ==
    IF \E prefix \in UrlPrefixes : StartsWith(Lower(reference_image), prefix)
    THEN [status |-> "ok", url |-> reference_image]
    ELSE IF reference_image \in readable
         THEN [status |-> "ok", url |-> <<"d", "a", "t", "a", ":">> \o reference_image]
         ELSE [status |-> "OSError"]

\* extract_identity_notes: the image is prepared before the try block, the
\* completion call and the filtering are inside it
extract_identity_notes(reference_image, completion, readable) ==
    LET image_payload == normalize_image_input(reference_image, readable)
    IN  IF image_payload.status # "ok" THEN [status |-> image_payload.status]
        ELSE IF completion.raises THEN [status |-> "ok", notes |-> <<>>]
        ELSE [status |-> "ok",
              notes |-> filter_physical_identity_notes(Strip(completion.text))]

-----------------------------------------------------------------------------
(* build_illustration_continuity_config.                                   *)

\* the characters _collect_note_lines strips (the source file holds these
\* seven, not the bullet and the dash)
BuilderBulletChars ==
    {" ", "\t", "-", "<a-circumflex>", "<euro>", "<cent>", "<right-quote>"}

RECURSIVE CleanNoteLines(_)
CleanNoteLines(pieces) ==
    IF pieces = <<>> THEN <<>>
    ELSE LET cleaned == StripChars(Head(pieces), BuilderBulletChars)
         IN  (IF cleaned # <<>> THEN <<cleaned>> ELSE <<>>)
             \o CleanNoteLines(Tail(pieces))

\* _collect_note_lines of a string
collect_note_lines_str(value) ==
    CleanNoteLines(SplitLines(ReplaceCR(value)))

\* _collect_note_lines of a sequence of strings (none of them None)
collect_note_lines(value) == collect_note_lines_str(JoinLines(value))

RECURSIVE DedupFrom(_, _, _)
DedupFrom(items, seen, ordered) ==
    IF items = <<>> THEN ordered
    ELSE LET key == Lower(Head(items))
         IN  IF key \in seen
             THEN DedupFrom(Tail(items), seen, ordered)
             ELSE DedupFrom(Tail(items), seen \cup {key}, Append(ordered, Head(items)))

\* a deduplication that compares the items as they are
RECURSIVE deduplicate_exact(_)
deduplicate_exact(items) ==
    IF items = <<>> THEN <<>>
    ELSE LET rest == deduplicate_exact(SubSeq(items, 1, Len(items) - 1))
             last == items[Len(items)]
         IN  IF In(last, rest) THEN rest ELSE Append(rest, last)

\* a deduplication that keeps the last of the items equal ignoring case
RECURSIVE deduplicate_last_kept(_)
deduplicate_last_kept(items) ==
    IF items = <<>> THEN <<>>
    ELSE IF \E i \in 2..Len(items) : Lower(items[i]) = Lower(Head(items))
         THEN deduplicate_last_kept(Tail(items))
         ELSE <<Head(items)>> \o deduplicate_last_kept(Tail(items))

\* _deduplicate
deduplicate(items) == DedupFrom(items, {}, <<>>)

RECURSIVE DashEach(_)
DashEach(lines) ==
    IF lines = <<>> THEN <<>>
    ELSE <<(<<"-", " ">> \o Head(lines))>> \o DashEach(Tail(lines))

\* dict update: the pair (name, details) written into an ordered mapping
RECURSIVE PutPair(_, _, _)
PutPair(pairs, name, details) ==
    IF pairs = <<>> THEN <<(<<name, details>>)>>
    ELSE IF Head(pairs)[1] = name THEN <<(<<name, details>>)>> \o Tail(pairs)
         ELSE <<Head(pairs)>> \o PutPair(Tail(pairs), name, details)

RECURSIVE ApplyOverrides(_, _)
ApplyOverrides(pairs, overrides) ==
    IF overrides = <<>> THEN pairs
    ELSE LET name_text == Strip(Head(overrides)[1])
             details_text == Strip(Head(overrides)[2])
         IN  ApplyOverrides(IF name_text # <<>> /\ details_text # <<>>
                            THEN PutPair(pairs, name_text, details_text)
                            ELSE pairs,
                            Tail(overrides))

\* a completion callable that returns an empty text
SilentCompletion == [raises |-> FALSE, text |-> <<>>]

\* the keyword defaults of build_illustration_continuity_config
NoArguments ==
    [automatic_identity_notes |-> TRUE,
     identity_note_overrides |-> <<>>,
     supporting_character_overrides |-> <<>>,
     static_continuity_overrides |-> <<>>,
     reference_history_size |-> None,
     reference_history_parameter |-> <<>>,
     promote_latest_reference |-> None,
     completion |-> SilentCompletion]

\* the history fields of the config, when promotion is not forced off
ResolveHistoryPromotionKept(args) ==
    LET size == Max(0, IF ~IsNone(args.reference_history_size)
                       THEN Value(args.reference_history_size)
                       ELSE DefaultConfig.reference_history_size)
    IN  [carry_reference_image_forward |-> size > 0,
         reference_history_size |-> size,
         reference_history_parameter |->
             IF size > 0 THEN args.reference_history_parameter ELSE <<>>,
         promote_latest_reference |->
             IF ~IsNone(args.promote_latest_reference)
             THEN Value(args.promote_latest_reference)
             ELSE DefaultConfig.promote_latest_reference]

\* build_illustration_continuity_config, the history fields of the config
ResolveHistory(args) ==
    LET base_defaults == DefaultConfig
        ref_history_size ==
            Max(0, IF ~IsNone(args.reference_history_size)
                   THEN Value(args.reference_history_size)
                   ELSE base_defaults.reference_history_size)
        ref_history_parameter ==
            IF args.reference_history_parameter # <<>>
            THEN args.reference_history_parameter
            ELSE base_defaults.reference_history_parameter
        use_promote_latest ==
            IF ~IsNone(args.promote_latest_reference)
            THEN Value(args.promote_latest_reference)
            ELSE base_defaults.promote_latest_reference
        should_carry_history == ref_history_size > 0
    IN  [carry_reference_image_forward |-> should_carry_history,
         reference_history_size |-> ref_history_size,
         reference_history_parameter |->
             IF should_carry_history THEN ref_history_parameter ELSE <<>>,
         promote_latest_reference |->
             IF should_carry_history THEN use_promote_latest ELSE FALSE]

\* the automatic notes, when a failed extraction is not caught
AutoIdentityNotesUncaught(args, reference_image, readable) ==
    IF args.automatic_identity_notes
    THEN extract_identity_notes(reference_image, args.completion, readable)
    ELSE [status |-> "ok", notes |-> <<>>]

\* build_illustration_continuity_config, the automatic notes: what
\* extract_identity_notes returns, the empty string when it raises or when
\* automatic notes are off
AutoIdentityNotes(args, reference_image, readable) ==
    IF args.automatic_identity_notes
    THEN LET extracted == extract_identity_notes(reference_image,
                                                 args.completion, readable)
         IN  IF extracted.status # "ok" THEN [status |-> "ok", notes |-> <<>>]
             ELSE extracted
    ELSE [status |-> "ok", notes |-> <<>>]

\* build_illustration_continuity_config, the static notes
StaticNotes(p, args) ==
    deduplicate(p.continuity_notes
                \o (IF args.static_continuity_overrides # <<>>
                    THEN collect_note_lines(args.static_continuity_overrides)
                    ELSE <<>>))

\* build_illustration_continuity_config: the ContinuityAssembly it returns
build_illustration_continuity_config(p, reference_image, args, readable) ==
    LET history == ResolveHistory(args)
        manual_identity_lines == collect_note_lines(args.identity_note_overrides)
        profile_identity_lines == collect_note_lines_str(p.identity_traits)
        auto == AutoIdentityNotes(args, reference_image, readable)
    IN  IF auto.status # "ok" THEN [status |-> auto.status]
        ELSE
        LET auto_identity_notes == auto.notes
            auto_identity_lines == collect_note_lines_str(auto_identity_notes)
            identity_lines ==
                deduplicate(manual_identity_lines \o profile_identity_lines
                            \o auto_identity_lines)
            identity_text ==
                IF identity_lines # <<>> THEN JoinLines(DashEach(identity_lines))
                ELSE <<>>
            supporting_notes ==
                ApplyOverrides(p.supporting_characters,
                               args.supporting_character_overrides)
            static_notes == StaticNotes(p, args)
        IN  [status |-> "ok",
             config |->
                 [identity_notes |-> identity_text,
                  supporting_character_notes |-> supporting_notes,
                  static_continuity_notes |-> static_notes,
                  carry_reference_image_forward |->
                      history.carry_reference_image_forward,
                  reference_history_size |-> history.reference_history_size,
                  reference_history_parameter |->
                      history.reference_history_parameter,
                  promote_latest_reference |-> history.promote_latest_reference,
                  propagate_supporting_details |-> TRUE,
                  supporting_details_history |->
                      DefaultConfig.supporting_details_history,
                  locked_seed |-> None,
                  auto_seed |-> TRUE,
                  vary_seed_per_page |-> FALSE],
             identity_notes |-> identity_text,
             auto_identity_notes |-> auto_identity_notes,
             supporting_character_notes |-> supporting_notes,
             static_continuity_notes |-> static_notes]

-----------------------------------------------------------------------------
(* PageAsset and StoryPackage: to_dict and from_dict.                      *)

\* the fields of the dataclass SceneDescription; none has a default
SceneDescriptionFields ==
    {"page_number", "scene_description", "outfit_description",
     "facial_expression", "pose_description", "supporting_details"}

\* SceneDescription(**kwargs): the dataclass constructor raises TypeError
\* when a field without a default is not passed
NewSceneDescription(kwargs) ==
    IF SceneDescriptionFields \subseteq DOMAIN kwargs
    THEN [status |-> "ok", scene |-> kwargs]
    ELSE [status |-> "TypeError"]

\* Python values handed to normalize_image_outputs, by their kind: None, a
\* str, a bytes (a byte that is not valid UTF-8 is "<invalid>"), a list or
\* other iterable of values, and any other object, given by its str()
NoneValue == [kind |-> "none"]
StrValue(text) == [kind |-> "str", text |-> text]
BytesValue(text) == [kind |-> "bytes", text |-> text]
ListValue(items) == [kind |-> "list", items |-> items]
OtherValue(text) == [kind |-> "other", text |-> text]

\* raw.decode("utf-8", errors="ignore")
Decode(bytes) == SelectSeq(bytes, LAMBDA b : b # "<invalid>")

\* the strings of the items, one after the other
JoinChars(items) == [i \in 1..Len(items) |-> items[i].text[1]]

RECURSIVE NormalizeItemsUnjoined(_)
RECURSIVE NormalizeOutputsUnjoined(_)
\* the outputs normalized without the rule for single-character strings
NormalizeOutputsUnjoined(raw) ==
    CASE raw.kind = "none" -> <<>>
      [] raw.kind = "str" -> <<raw.text>>
      [] raw.kind = "bytes" -> <<Decode(raw.text)>>
      [] raw.kind = "list" -> NormalizeItemsUnjoined(raw.items)
      [] OTHER -> <<raw.text>>

NormalizeItemsUnjoined(items) ==
    IF items = <<>> THEN <<>>
    ELSE LET item == Head(items)
         IN  (CASE item.kind = "str" -> <<item.text>>
                [] item.kind = "bytes" -> <<Decode(item.text)>>
                [] item.kind = "list" -> NormalizeOutputsUnjoined(item)
                [] item.kind = "none" -> <<>>
                [] OTHER -> <<item.text>>)
             \o NormalizeItemsUnjoined(Tail(items))

RECURSIVE NormalizeItems(_)
RECURSIVE NormalizeOutputs(_)
\* normalize_image_outputs
NormalizeOutputs(raw) ==
    CASE raw.kind = "none" -> <<>>
      [] raw.kind = "str" -> <<raw.text>>
      [] raw.kind = "bytes" -> <<Decode(raw.text)>>
      [] raw.kind = "list" ->
             IF raw.items = <<>> THEN <<>>
             ELSE IF \A i \in 1..Len(raw.items) :
                         /\ raw.items[i].kind = "str"
                         /\ Len(raw.items[i].text) = 1
                  THEN <<JoinChars(raw.items)>>
                  ELSE NormalizeItems(raw.items)
      [] OTHER -> <<raw.text>>

\* normalize_image_outputs, the loop over the collected items
NormalizeItems(items) ==
    IF items = <<>> THEN <<>>
    ELSE LET item == Head(items)
         IN  (CASE item.kind = "str" -> <<item.text>>
                [] item.kind = "bytes" -> <<Decode(item.text)>>
                [] item.kind = "list" -> NormalizeOutputs(item)
                [] item.kind = "none" -> <<>>
                [] OTHER -> <<item.text>>)
             \o NormalizeItems(Tail(items))

\* normalize_image_outputs of a list of strings
normalize_image_outputs(raw) ==
    NormalizeOutputs(ListValue([i \in 1..Len(raw) |-> StrValue(raw[i])]))

\* PageAsset.to_dict
PageToDict(asset) ==
    [keys |-> {"page_number", "title", "story_text", "scene_description",
               "supporting_details", "image_outputs"},
     page_number |-> asset.page.page_number,
     title |-> asset.page.title,
     story_text |-> asset.page.story_text,
     scene_description |-> asset.scene.scene_description,
     supporting_details |-> asset.scene.supporting_details,
     image_outputs |-> asset.image_outputs]

\* StoryPackage.to_dict
to_dict(pkg) ==
    [keys |-> {"child_profile", "story_markdown", "pages"},
     child_profile |-> [keys |-> {"name"}, name |-> pkg.profile.name],
     story_markdown |-> pkg.story_markdown,
     pages |-> [i \in 1..Len(pkg.pages) |-> PageToDict(pkg.pages[i])]]

\* KidProfile.from_mapping, the name
from_mapping(data) ==
    IF "name" \notin data.keys \/ Strip(data.name) = <<>>
    THEN [status |-> "ValueError"]
    ELSE [status |-> "ok", profile |-> [name |-> Strip(data.name)]]

\* the keys from_dict reads from a page entry without a default
RequiredEntryKeys == {"page_number", "title", "story_text"}

\* from_dict, the body of the loop for one page entry
PageFromEntry(entry) ==
    IF ~(RequiredEntryKeys \subseteq entry.keys)
    THEN [status |-> "ValueError"]
    ELSE LET page_number == entry.page_number
             story_page == [page_number |-> page_number,
                            title |-> Strip(entry.title),
                            story_text |-> Strip(entry.story_text)]
             made == NewSceneDescription(
                        [page_number |-> page_number,
                         scene_description |->
                             IF "scene_description" \in entry.keys
                             THEN Strip(entry.scene_description) ELSE <<>>,
                         supporting_details |->
                             IF "supporting_details" \in entry.keys
                             THEN Strip(entry.supporting_details) ELSE <<>>])
         IN  IF made.status # "ok" THEN [status |-> made.status]
             ELSE [status |-> "ok",
                   asset |-> [page |-> story_page,
                              scene |-> made.scene,
                              image_outputs |->
                                  normalize_image_outputs(
                                      IF "image_outputs" \in entry.keys
                                      THEN entry.image_outputs ELSE <<>>)]]

RECURSIVE PagesFromEntries(_, _)
PagesFromEntries(entries, pages) ==
    IF entries = <<>> THEN [status |-> "ok", pages |-> pages]
    ELSE LET one == PageFromEntry(Head(entries))
         IN  IF one.status # "ok" THEN [status |-> one.status]
             ELSE PagesFromEntries(Tail(entries), Append(pages, one.asset))

\* StoryPackage.from_dict
from_dict(pl) ==
    IF "child_profile" \notin pl.keys THEN [status |-> "ValueError"]
    ELSE IF "pages" \notin pl.keys THEN [status |-> "ValueError"]
    ELSE LET prof == from_mapping(pl.child_profile)
         IN  IF prof.status # "ok" THEN [status |-> prof.status]
             ELSE LET got == PagesFromEntries(pl.pages, <<>>)
                  IN  IF got.status # "ok" THEN [status |-> got.status]
                      ELSE [status |-> "ok",
                            profile |-> prof.profile,
                            story_markdown |->
                                IF "story_markdown" \in pl.keys
                                THEN Strip(pl.story_markdown) ELSE <<>>,
                            pages |-> got.pages]

-----------------------------------------------------------------------------
(* The state machine: one continuity state, built once, then asked for     *)
(* directives and told of generations, page after page.                    *)

\* the profile and the base reference image of the run
Mia ==
    [name |-> <<"M", "i", "a">>,
     identity_traits |-> <<>>,
     supporting_characters |-> <<>>,
     continuity_notes |-> <<>>,
     story_language |-> <<"E", "n">>]

MiaJpg == <<"m">>

\* a scene whose supporting details are empty
PlainScene == [supporting_details |-> <<>>]

\* IllustrationContinuityState.__init__: the fields of the new state
new_state(cfg, prof, base, d) ==
    [config |-> cfg,
     profile |-> prof,
     base_reference_image |-> base,
     reference_history |-> <<>>,
     supporting_history |-> <<>>,
     identity_notes |->
         IF cfg.identity_notes # <<>> THEN cfg.identity_notes
         ELSE format_identity_notes(prof),
     base_seed |-> InitBaseSeed(cfg, d)]

\* a continuity state is constructed; nothing was asked of it yet
Construct(cfg, prof, base, d) ==
    /\ config = new_state(cfg, prof, base, d).config
    /\ profile = new_state(cfg, prof, base, d).profile
    /\ base_reference_image = new_state(cfg, prof, base, d).base_reference_image
    /\ reference_history = new_state(cfg, prof, base, d).reference_history
    /\ supporting_history = new_state(cfg, prof, base, d).supporting_history
    /\ identity_notes = new_state(cfg, prof, base, d).identity_notes
    /\ base_seed = new_state(cfg, prof, base, d).base_seed
    /\ digest = d
    /\ directives = None
    /\ current_scene = None
    /\ seed = None
    /\ calls = <<>>

NoPackage ==
    /\ original = None
    /\ payload = None
    /\ package = None

\* no config assembly in this history
NoAssembly ==
    /\ files = {}
    /\ arguments = None
    /\ extraction = None
    /\ assembly = None

\* no orchestrator run in this history
NoRuns ==
    /\ inputs = None
    /\ runs = <<>>

\* no call of a single function in this history
NoCall ==
    /\ call = None
    /\ outcome = None

NoAssemblyChange == UNCHANGED <<files, arguments, extraction, assembly>>

NoCallChange == UNCHANGED <<call, outcome>>

NoRunsChange == UNCHANGED <<inputs, runs>>

\* build_directives that also records the notes of the scene
BuildDirectivesRecording(scene, page_number) ==
    /\ directives' = Some(build_directives(config, base_reference_image,
                                           reference_history, supporting_history,
                                           identity_notes, base_seed,
                                           scene, page_number))
    /\ current_scene' = Some(scene)
    /\ supporting_history' = RecordSupporting(config, supporting_history, scene)
    /\ UNCHANGED <<config, profile, base_reference_image, reference_history,
                   identity_notes, base_seed, digest, seed,
                   calls, original, payload, package>>
    /\ NoAssemblyChange
    /\ NoRunsChange
    /\ NoCallChange

\* continuity_state.build_directives(scene=scene, page_number=page_number)
BuildDirectives(scene, page_number) ==
    /\ directives' = Some(build_directives(config, base_reference_image,
                                           reference_history, supporting_history,
                                           identity_notes, base_seed,
                                           scene, page_number))
    /\ current_scene' = Some(scene)
    /\ UNCHANGED <<config, profile, base_reference_image, reference_history,
                   supporting_history, identity_notes, base_seed, digest, seed,
                   calls, original, payload, package>>
    /\ NoAssemblyChange
    /\ NoRunsChange
    /\ NoCallChange

\* record_generation that moves the base seed on by one
RecordGenerationReseeding(scene, image_outputs) ==
    /\ Len(calls) < MaxCalls
    /\ supporting_history' = RecordSupporting(config, supporting_history, scene)
    /\ reference_history' = RecordReference(config, reference_history, image_outputs)
    /\ calls' = <<[scene |-> scene, image_outputs |-> image_outputs]>> \o calls
    /\ directives' = None
    /\ current_scene' = None
    /\ base_seed' = IF IsNone(base_seed) THEN base_seed
                    ELSE Some(AddMod(Value(base_seed), 1))
    /\ UNCHANGED <<config, profile, base_reference_image, identity_notes,
                   digest, seed, original, payload, package>>
    /\ NoAssemblyChange
    /\ NoRunsChange
    /\ NoCallChange

\* continuity_state.record_generation(scene=scene, image_outputs=image_outputs);
\* the page's directives are used up
RecordGeneration(scene, image_outputs) ==
    /\ Len(calls) < MaxCalls
    /\ supporting_history' = RecordSupporting(config, supporting_history, scene)
    /\ reference_history' = RecordReference(config, reference_history, image_outputs)
    /\ calls' = <<[scene |-> scene, image_outputs |-> image_outputs]>> \o calls
    /\ directives' = None
    /\ current_scene' = None
    /\ UNCHANGED <<config, profile, base_reference_image, identity_notes,
                   base_seed, digest, seed, original, payload, package>>
    /\ NoAssemblyChange
    /\ NoRunsChange
    /\ NoCallChange

\* the page being processed: one more than the generations recorded
CurrentPage == Len(calls) + 1

-----------------------------------------------------------------------------
(* Spec: the reference history.  The config is any config whose reference  *)
(* fields are set directly, the rest as the config assembly resolves them. *)

Url(c) == <<c>>
Blank == <<" ">>
Padded(c) == <<" ", c, " ">>

\* what the image generator returned for a page, normalized
OutputLists ==
    { <<>>, <<Blank>>, <<Url("a")>>, <<Padded("a")>>, <<Url("b")>>,
      <<Url("c")>>, <<MiaJpg>>, <<Blank, Url("b")>>, <<Url("a"), Url("c")>> }

\* a name for the model input that receives the reference history
RefsKey == <<"r", "e", "f", "s">>

ReferenceConfigs ==
    { [build_illustration_continuity_config(Mia, MiaJpg, NoArguments,
                                            {MiaJpg}).config EXCEPT
          !.carry_reference_image_forward = carry,
          !.reference_history_size = size,
          !.reference_history_parameter = parameter,
          !.promote_latest_reference = promote] :
      carry \in BOOLEAN, size \in -1..MaxHistorySize,
      parameter \in {<<>>, RefsKey}, promote \in BOOLEAN }

Init ==
    /\ \E cfg \in ReferenceConfigs : Construct(cfg, Mia, MiaJpg, 5)
    /\ NoPackage
    /\ NoAssembly
    /\ NoRuns
    /\ NoCall

Next ==
    \/ BuildDirectives(PlainScene, CurrentPage)
    \/ \E image_outputs \in OutputLists : RecordGeneration(PlainScene, image_outputs)

Spec == Init /\ [][Next]_vars

-----------------------------------------------------------------------------
(* The reference history: claims C1 to C4.                                 *)

\* the first output of a call that is not blank, as the generator gave it
RECURSIVE RawFirst(_)
RawFirst(image_outputs) ==
    IF image_outputs = <<>> THEN <<>>
    ELSE IF Strip(Head(image_outputs)) # <<>> THEN Head(image_outputs)
         ELSE RawFirst(Tail(image_outputs))

\* per record_generation call, latest first: its first non-blank output
RawOutputs == [i \in 1..Len(calls) |-> RawFirst(calls[i].image_outputs)]

\* the same, with the surrounding whitespace removed
TrimmedOutputs == [i \in 1..Len(calls) |-> Strip(RawOutputs[i])]

PairwiseDistinct(xs) ==
    \A i, j \in 1..Len(xs) : i # j => xs[i] # xs[j]

EveryCallHasOutput == \A i \in 1..Len(calls) : RawOutputs[i] # <<>>

Capacity == config.reference_history_size

\* C1 as stated: with history-carrying on and capacity C >= 1, after N >= C
\* record_generation calls whose first non-blank outputs are pairwise
\* distinct, the buffer holds exactly those C most recent outputs, latest
\* first.
C1_AsStated ==
    ( /\ config.carry_reference_image_forward
      /\ Capacity >= 1
      /\ Len(calls) >= Capacity
      /\ EveryCallHasOutput
      /\ PairwiseDistinct(RawOutputs) )
    => /\ Len(reference_history) = Capacity
       /\ reference_history = SubSeq(RawOutputs, 1, Capacity)

\* C1 amended: with history-carrying on and capacity C >= 1, after N >= C
\* record_generation calls whose first non-blank outputs are pairwise
\* distinct once their surrounding whitespace is removed, the buffer holds
\* exactly C entries: the C most recent of those trimmed outputs, latest
\* first.
C1_HistoryBounding ==
    ( /\ config.carry_reference_image_forward
      /\ Capacity >= 1
      /\ Len(calls) >= Capacity
      /\ EveryCallHasOutput
      /\ PairwiseDistinct(TrimmedOutputs) )
    => /\ Len(reference_history) = Capacity
       /\ reference_history = SubSeq(TrimmedOutputs, 1, Capacity)

\* more calls than the capacity of two, one of them with a padded output:
\* the oldest output has been dropped
C1_Witness ==
    /\ config.carry_reference_image_forward
    /\ Capacity = 2
    /\ Len(calls) = 3
    /\ EveryCallHasOutput
    /\ PairwiseDistinct(TrimmedOutputs)
    /\ \E i \in 1..2 : RawOutputs[i] # TrimmedOutputs[i]
    /\ ~In(TrimmedOutputs[3], reference_history)

\* C2 as stated: in every reachable state, for every config, the reference
\* history holds at most max(0, reference_history_size) entries.
C2_HistoryWithinCapacity ==
    Len(reference_history) <= Max(0, config.reference_history_size)

\* C3: with history-carrying and promotion on, base image B and a non-empty
\* history h1..hn, the directives have primary h1 and additional h2..hn,
\* followed by B when B is not among h2..hn; for a history h1, h2 (B not
\* h2) the additional references are h2, B.
C3_PromotionLaw ==
    ( /\ directives # None
      /\ config.carry_reference_image_forward
      /\ config.promote_latest_reference
      /\ reference_history # <<>> )
    => LET d == Value(directives)
           h == reference_history
           B == base_reference_image
           rest == [i \in 1..(Len(h) - 1) |-> h[i + 1]]
       IN  /\ d.primary_reference_image = h[1]
           /\ (\E i \in 1..Len(rest) : rest[i] = B)
                  => d.additional_reference_images = rest
           /\ ~(\E i \in 1..Len(rest) : rest[i] = B)
                  => d.additional_reference_images = rest \o <<B>>
           /\ (Len(h) = 2 /\ h[2] # B)
                  => d.additional_reference_images = <<h[2], B>>

\* directives built from a history of two with promotion on, the base image
\* not in it
C3_Witness ==
    /\ directives # None
    /\ config.carry_reference_image_forward
    /\ config.promote_latest_reference
    /\ Len(reference_history) = 2
    /\ ~In(base_reference_image, reference_history)
    /\ Value(directives).additional_reference_images
           = <<reference_history[2], base_reference_image>>

\* the config the assembly resolves for reference_history_size = 1 and
\* promote_latest_reference = true
EndToEndConfig ==
    build_illustration_continuity_config(
        Mia, MiaJpg,
        [NoArguments EXCEPT !.reference_history_size = Some(1),
                            !.promote_latest_reference = Some(TRUE)],
        {MiaJpg}).config

\* every page so far gave a first output that is not blank
EveryFirstOutputNonBlank ==
    \A i \in 1..Len(calls) :
        /\ calls[i].image_outputs # <<>>
        /\ Strip(calls[i].image_outputs[1]) # <<>>

FirstOutputs == [i \in 1..Len(calls) |-> calls[i].image_outputs[1]]

\* C4 as stated: under the resolved config for size 1 with promotion, page 1
\* has primary B and no additional references, and after each page k gave a
\* fresh non-blank first output u_k, page k+1 has primary u_k and
\* additional (B).
C4_AsStated ==
    (config = EndToEndConfig /\ directives # None)
    => LET d == Value(directives)
       IN  /\ calls = <<>>
               => /\ d.primary_reference_image = base_reference_image
                  /\ d.additional_reference_images = <<>>
           /\ (calls # <<>> /\ EveryFirstOutputNonBlank
                            /\ PairwiseDistinct(FirstOutputs))
               => /\ d.primary_reference_image = FirstOutputs[1]
                  /\ d.additional_reference_images = <<base_reference_image>>

\* C4 amended: under the resolved config for size 1 with promotion, page 1
\* has primary B and no additional references, and after each page k gave a
\* fresh non-blank first output u_k, page k+1 has as primary u_k with its
\* surrounding whitespace removed, and additional (B).
C4_EndToEnd ==
    (config = EndToEndConfig /\ directives # None)
    => LET d == Value(directives)
       IN  /\ calls = <<>>
               => /\ d.primary_reference_image = base_reference_image
                  /\ d.additional_reference_images = <<>>
           /\ (calls # <<>> /\ EveryFirstOutputNonBlank
                            /\ PairwiseDistinct([i \in 1..Len(calls) |->
                                                    Strip(FirstOutputs[i])]))
               => /\ d.primary_reference_image = Strip(FirstOutputs[1])
                  /\ d.additional_reference_images = <<base_reference_image>>

\* page 3 of the end-to-end run, after two fresh outputs, the latest padded
C4_Witness ==
    /\ config = EndToEndConfig
    /\ directives # None
    /\ Len(calls) = 2
    /\ EveryFirstOutputNonBlank
    /\ PairwiseDistinct([i \in 1..Len(calls) |-> Strip(FirstOutputs[i])])
    /\ FirstOutputs[1] # Strip(FirstOutputs[1])
    /\ Value(directives).primary_reference_image = Strip(FirstOutputs[1])

-----------------------------------------------------------------------------
(* SpecSeed: seed resolution, under every seed policy.                     *)

\* seed = state.seed_for_page(page_number)
SeedForPage(page_number) ==
    /\ seed' = Some([page_number |-> page_number,
                     value |-> seed_for_page(config, base_seed, page_number)])
    /\ UNCHANGED <<config, profile, base_reference_image, reference_history,
                   supporting_history, identity_notes, base_seed, digest,
                   directives, current_scene, calls, original, payload, package>>
    /\ NoAssemblyChange
    /\ NoRunsChange
    /\ NoCallChange

LockedSeeds ==
    {None} \cup { Some(x) : x \in {-SEED_MOD, -1, 0, 1, 7, SEED_MOD - 1, SEED_MOD} }

\* digests of a profile and image, by their residue: 0, small, and one and
\* two below the modulus
Digests == {0, 1, 7, SEED_MOD - 2, SEED_MOD - 1, SEED_MOD}

PageNumbers == -1..MaxPage

SeedConfigs ==
    { [DefaultConfig EXCEPT !.locked_seed = locked,
                            !.auto_seed = auto,
                            !.vary_seed_per_page = vary] :
      locked \in LockedSeeds, auto \in BOOLEAN, vary \in BOOLEAN }

InitSeed ==
    /\ \E cfg \in SeedConfigs, d \in Digests : Construct(cfg, Mia, MiaJpg, d)
    /\ NoPackage
    /\ NoAssembly
    /\ NoRuns
    /\ NoCall

NextSeed == \E page_number \in PageNumbers : SeedForPage(page_number)

SpecSeed == InitSeed /\ [][NextSeed]_vars

\* C5: with no locked seed, vary_seed_per_page set and base seed S, the seed
\* of page 1 is S and the seed of every page k >= 1 is (S + k - 1) mod M,
\* except that it is S when that value is <= 0.
C5_PerPageSeedLaw ==
    ( /\ seed # None
      /\ IsNone(config.locked_seed)
      /\ config.vary_seed_per_page
      /\ base_seed # None
      /\ Value(seed).page_number >= 1 )
    => LET S == Value(base_seed)
           k == Value(seed).page_number
           sum == AddMod(S, k - 1)
       IN  /\ Value(seed).value = Some(IF sum <= 0 THEN S ELSE sum)
           /\ k = 1 => Value(seed).value = Some(S)

\* the sum wraps to zero: base seed M - 1 on page 2 resolves to the base seed
C5_Witness ==
    /\ seed # None
    /\ IsNone(config.locked_seed)
    /\ config.vary_seed_per_page
    /\ base_seed = Some(SEED_MOD - 1)
    /\ Value(seed).page_number = 2
    /\ Value(seed).value = base_seed

\* C6: every seed resolved for a page, under every seed policy and for every
\* page number, is an integer in 1..M-1; zero is never produced.
C6_SeedInRange ==
    (seed # None /\ Value(seed).value # None)
    => /\ Value(Value(seed).value) >= 1
       /\ Value(Value(seed).value) <= SEED_MOD - 1

\* a locked seed of zero resolves to 1
C6_Witness ==
    /\ seed # None
    /\ config.locked_seed = Some(0)
    /\ Value(seed).value = Some(1)

\* C7 as stated: when a locked seed L is configured, the seed resolved for
\* every page equals L unchanged.
C7_AsStated ==
    (seed # None /\ ~IsNone(config.locked_seed))
    => Value(seed).value = config.locked_seed

\* C7 amended: when a locked seed L is configured, the seed resolved for
\* every page is L mod M, or 1 when that is 0 (so L itself when 1 <= L <=
\* M-1), whatever vary_seed_per_page and auto_seed are.
C7_LockedSeed ==
    (seed # None /\ ~IsNone(config.locked_seed))
    => LET L == Value(config.locked_seed)
       IN  /\ Value(seed).value = Some(IF L % SEED_MOD = 0 THEN 1 ELSE L % SEED_MOD)
           /\ (1 <= L /\ L <= SEED_MOD - 1) => Value(seed).value = Some(L)

\* a locked seed of 7 with page-varying seeds, resolved for page 3
C7_Witness ==
    /\ seed # None
    /\ config.locked_seed = Some(7)
    /\ config.vary_seed_per_page
    /\ Value(seed).page_number = 3
    /\ Value(seed).value = Some(7)

-----------------------------------------------------------------------------
(* SpecNotes: the continuity notes and the supporting history.             *)

\* a line longer than the summary limit, with a blank where it is cut
LongLine == [i \in 1..(SummaryLimit + 1) |-> IF i = SummaryKeep THEN " " ELSE "x"]

\* supporting details the scene generator may return
DetailTexts ==
    { <<>>,
      <<"r">>,
      <<"R">>,
      <<"-", " ", "r", "\n", "<bullet>", " ", "s", "\r">>,
      <<" ", "-", " ">>,
      LongLine }

NoteScenes == { [supporting_details |-> t] : t \in DetailTexts }

StaticNoteLists ==
    { <<>>, <<(<<"r">>)>>, <<Padded("R"), Blank, <<"s">>>> }

NoteConfigs ==
    { [DefaultConfig EXCEPT !.static_continuity_notes = static,
                            !.propagate_supporting_details = propagate,
                            !.supporting_details_history = size] :
      static \in StaticNoteLists, propagate \in BOOLEAN,
      size \in -1..MaxHistorySize }

InitNotes ==
    /\ \E cfg \in NoteConfigs : Construct(cfg, Mia, MiaJpg, 5)
    /\ NoPackage
    /\ NoAssembly
    /\ NoRuns
    /\ NoCall

NextNotes ==
    \/ \E scene \in NoteScenes : BuildDirectives(scene, CurrentPage)
    \/ \E scene \in NoteScenes : RecordGeneration(scene, <<Url("a")>>)

SpecNotes == InitNotes /\ [][NextNotes]_vars

\* C8 as stated: the continuity notes of the directives never hold two
\* entries that are equal ignoring case.
C8_NotesDistinctIgnoringCase ==
    directives # None
    => LET notes == Value(directives).continuity_notes
       IN  \A i, j \in 1..Len(notes) :
               i # j => Lower(notes[i]) # Lower(notes[j])

-----------------------------------------------------------------------------
(* SpecPackage: StoryPackage.from_dict, on payloads read from a file and   *)
(* on the payload of a package the orchestrator produced.                  *)

EntryKeys ==
    {"page_number", "title", "story_text", "scene_description",
     "supporting_details", "image_outputs"}

\* a page entry with the given keys and page number
PayloadEntry(keys, n) ==
    [keys |-> keys,
     page_number |-> n,
     title |-> <<"T">>,
     story_text |-> <<"t", " ">>,
     scene_description |-> <<"s">>,
     supporting_details |-> <<>>,
     image_outputs |-> <<Url("a")>>]

\* page entries of a payload: complete with any page number, or lacking one
\* of the required keys
PayloadEntries ==
    { PayloadEntry(EntryKeys, n) : n \in 1..(MaxPayloadPages + 1) }
    \cup { PayloadEntry(EntryKeys \ {k}, 1) : k \in RequiredEntryKeys }

RECURSIVE SeqsUpTo(_, _)
SeqsUpTo(S, n) ==
    IF n = 0 THEN { <<>> }
    ELSE LET shorter == SeqsUpTo(S, n - 1)
         IN  shorter \cup { Append(q, x) : q \in shorter, x \in S }

Payloads ==
    { [keys |-> keys,
       child_profile |-> [keys |-> {"name"}, name |-> Mia.name],
       story_markdown |-> <<"S">>,
       pages |-> pages] :
      keys \in { {"child_profile", "story_markdown", "pages"},
                 {"story_markdown", "pages"},
                 {"child_profile", "story_markdown"} },
      pages \in SeqsUpTo(PayloadEntries, MaxPayloadPages) }

\* a page asset as _generate_page_assets appends it: the page of split_story
\* (title and text stripped, not empty), the scene of page_to_scene (its
\* fields stripped), the normalized image outputs
ProducedAsset(n, details, outputs) ==
    [page |-> [page_number |-> n, title |-> <<"T">>, story_text |-> <<"t">>],
     scene |-> [page_number |-> n,
                scene_description |-> <<"s">>,
                outfit_description |-> <<"o">>,
                facial_expression |-> <<"f">>,
                pose_description |-> <<"p">>,
                supporting_details |-> details],
     image_outputs |-> outputs]

ProducedOutputs == { <<>>, <<<<"u", "1">>>>, <<<<"u", "1">>, <<"u", "2">>>> }

ProducedDetails == { <<>>, <<"r">> }

\* the packages _run_pipeline returns: pages numbered 1..N in order, N >= 1
ProducedPackages ==
    UNION { { [profile |-> [name |-> Mia.name],
               story_markdown |-> <<"S">>,
               pages |-> [i \in 1..n |-> ProducedAsset(i, details[i], outputs[i])]] :
              details \in [1..n -> ProducedDetails],
              outputs \in [1..n -> ProducedOutputs] } :
            n \in 1..MaxPayloadPages }

NoContinuityChange ==
    UNCHANGED <<config, profile, base_reference_image, reference_history,
                supporting_history, identity_notes, base_seed, digest,
                directives, current_scene, seed, calls>>

\* package = StoryPackage.from_dict(payload), for a payload read from a file
Deserialize ==
    /\ original = None
    /\ payload # None
    /\ package = None
    /\ package' = Some(from_dict(Value(payload)))
    /\ UNCHANGED <<original, payload>>
    /\ NoContinuityChange
    /\ NoAssemblyChange
    /\ NoRunsChange
    /\ NoCallChange

\* package = StoryPackage.from_dict(original.to_dict())
RoundTrip ==
    /\ original # None
    /\ package = None
    /\ payload' = Some(to_dict(Value(original)))
    /\ package' = Some(from_dict(to_dict(Value(original))))
    /\ UNCHANGED original
    /\ NoContinuityChange
    /\ NoAssemblyChange
    /\ NoRunsChange
    /\ NoCallChange

InitPackage ==
    /\ Construct(DefaultConfig, Mia, MiaJpg, 5)
    /\ NoAssembly
    /\ NoRuns
    /\ NoCall
    /\ package = None
    /\ \/ original = None /\ \E pl \in Payloads : payload = Some(pl)
       \/ payload = None /\ \E pkg \in ProducedPackages : original = Some(pkg)

NextPackage ==
    \/ Deserialize
    \/ RoundTrip

SpecPackage == InitPackage /\ [][NextPackage]_vars

\* the page entries are numbered 1..N in order, without gaps
Contiguous(pages) == \A i \in 1..Len(pages) : pages[i].page_number = i

\* C9 as stated: from_dict rejects with a validation error (ValueError)
\* every payload whose pages are not numbered exactly 1..N in order.
C9_RejectsNonContiguous ==
    (package # None /\ ~Contiguous(Value(payload).pages))
    => Value(package).status = "ValueError"

\* C10 as stated: for every package p the orchestrator can produce,
\* from_dict(p.to_dict()) succeeds and yields the same story text and the
\* same ordered pages, each with the same page number, title, story text,
\* scene description, supporting details and image outputs.
C10_RoundTrip ==
    (original # None /\ package # None)
    => LET p == Value(original)
           q == Value(package)
       IN  /\ q.status = "ok"
           /\ q.story_markdown = p.story_markdown
           /\ Len(q.pages) = Len(p.pages)
           /\ \A i \in 1..Len(p.pages) :
                  /\ q.pages[i].page.page_number = p.pages[i].page.page_number
                  /\ q.pages[i].page.title = p.pages[i].page.title
                  /\ q.pages[i].page.story_text = p.pages[i].page.story_text
                  /\ q.pages[i].scene.scene_description
                         = p.pages[i].scene.scene_description
                  /\ q.pages[i].scene.supporting_details
                         = p.pages[i].scene.supporting_details
                  /\ q.pages[i].image_outputs = p.pages[i].image_outputs

\* the payload lacks the profile or the page list, or one of its page
\* entries lacks the page number, the title or the story text
LacksRequired(pl) ==
    \/ "child_profile" \notin pl.keys
    \/ "pages" \notin pl.keys
    \/ \E i \in 1..Len(pl.pages) : ~(RequiredEntryKeys \subseteq pl.pages[i].keys)

\* C11 as stated: from_dict rejects with a validation error (ValueError),
\* returning no package, every payload that lacks the profile or the page
\* list and every payload with a page entry that lacks the page number, the
\* title or the story text.
C11_RejectsMissingFields ==
    (original = None /\ package # None /\ LacksRequired(Value(payload)))
    => Value(package).status = "ValueError"

-----------------------------------------------------------------------------
(* SpecBuilder: identity extraction and the assembly of the config.        *)

RedCapNote ==
    <<"W", "e", "a", "r", "s", " ", "r", "e", "d", " ", "c", "a", "p">>

RedCapNoteLower == Lower(RedCapNote)

\* a reference image given by URL, and one given by a local path
HttpImage == <<"H", "t", "t", "p", ":", "/", "/", "m">>

BuilderImages == { HttpImage, MiaJpg }

BuilderFiles == { {}, {MiaJpg} }

BuilderProfiles ==
    { [Mia EXCEPT !.continuity_notes = notes] :
      notes \in { <<>>, <<RedCapNote>>, <<RedCapNoteLower, RedCapNote>> } }

\* what the completion callable does: raises, or returns a text
Completions ==
    { [raises |-> TRUE, text |-> <<>>],
      SilentCompletion,
      [raises |-> FALSE,
       text |-> <<"-", " ", "R", "e", "d", " ", "H", "a", "t", "\n",
                  "<bullet>", " ", "E", "y", "e", "\n", " ">>] }

StaticOverrides ==
    { <<>>,
      <<RedCapNoteLower>>,
      <<(<<"-", " ", "s", "\n", " ">>), RedCapNote, <<"S">>>> }

BuilderArguments ==
    { [NoArguments EXCEPT
          !.automatic_identity_notes = automatic,
          !.static_continuity_overrides = static,
          !.reference_history_size = size,
          !.reference_history_parameter = parameter,
          !.promote_latest_reference = promote,
          !.completion = completion] :
      automatic \in BOOLEAN,
      static \in StaticOverrides,
      size \in {None} \cup { Some(n) : n \in -1..MaxHistorySize },
      parameter \in { <<>>, RefsKey },
      promote \in {None, Some(TRUE), Some(FALSE)},
      completion \in Completions }

\* extraction = extract_identity_notes(reference_image, completion_fn=...)
ExtractIdentityNotes ==
    /\ extraction = None
    /\ extraction' = Some(extract_identity_notes(base_reference_image,
                                                 Value(arguments).completion,
                                                 files))
    /\ UNCHANGED <<files, arguments, assembly, original, payload, package>>
    /\ NoContinuityChange
    /\ NoCallChange
    /\ NoRunsChange

\* assembly = build_illustration_continuity_config(profile=..., ...)
Assemble ==
    /\ assembly = None
    /\ assembly' = Some(build_illustration_continuity_config(
                            profile, base_reference_image,
                            Value(arguments), files))
    /\ UNCHANGED <<files, arguments, extraction, original, payload, package>>
    /\ NoContinuityChange
    /\ NoCallChange
    /\ NoRunsChange

InitBuilder ==
    /\ \E prof \in BuilderProfiles, image \in BuilderImages :
           Construct(DefaultConfig, prof, image, 5)
    /\ NoPackage
    /\ NoRuns
    /\ NoCall
    /\ files \in BuilderFiles
    /\ \E args \in BuilderArguments : arguments = Some(args)
    /\ extraction = None
    /\ assembly = None

NextBuilder ==
    \/ ExtractIdentityNotes
    \/ Assemble

SpecBuilder == InitBuilder /\ [][NextBuilder]_vars

\* the history size the caller passed, or the default when none was passed
RequestedHistorySize ==
    IF IsNone(Value(arguments).reference_history_size)
    THEN DefaultConfig.reference_history_size
    ELSE Value(Value(arguments).reference_history_size)

\* C12: when the history size the assembly resolves is zero (a negative
\* size is clamped to zero), the config has history-carrying off, promotion
\* off and no history parameter, whatever parameter name and promotion flag
\* were passed; when it is positive, history-carrying is on.
C12_ZeroSizeDisablesHistory ==
    assembly # None
    => /\ Value(assembly).status = "ok"
       /\ LET cfg == Value(assembly).config
          IN  /\ RequestedHistorySize <= 0
                  => /\ cfg.reference_history_size = 0
                     /\ ~cfg.carry_reference_image_forward
                     /\ ~cfg.promote_latest_reference
                     /\ cfg.reference_history_parameter = <<>>
              /\ RequestedHistorySize > 0
                  => /\ cfg.reference_history_size = RequestedHistorySize
                     /\ cfg.carry_reference_image_forward

\* a negative size with a parameter name and promotion passed: all off
C12_Witness ==
    /\ assembly # None
    /\ Value(arguments).reference_history_size = Some(-1)
    /\ Value(arguments).reference_history_parameter = RefsKey
    /\ Value(arguments).promote_latest_reference = Some(TRUE)
    /\ ~Value(assembly).config.carry_reference_image_forward
    /\ ~Value(assembly).config.promote_latest_reference

\* the entries of notes with every later entry that equals an earlier one,
\* ignoring case, removed
FirstOccurrences(notes) ==
    LET kept == { i \in 1..Len(notes) :
                    \A j \in 1..(i - 1) : Lower(notes[j]) # Lower(notes[i]) }
    IN  [k \in 1..Cardinality(kept) |->
            notes[CHOOSE i \in kept : Cardinality({ j \in kept : j <= i }) = k]]

ExtractionFails ==
    \/ normalize_image_input(base_reference_image, files).status # "ok"
    \/ Value(arguments).completion.raises

\* C18: a failure of identity extraction never aborts the assembly: a config
\* is returned, and it equals the config returned for the same inputs with
\* automatic extraction disabled.
C18_ExtractionFailureIsolated ==
    (assembly # None /\ Value(arguments).automatic_identity_notes
                     /\ ExtractionFails)
    => /\ Value(assembly).status = "ok"
       /\ Value(assembly).config
              = build_illustration_continuity_config(
                    profile, base_reference_image,
                    [Value(arguments) EXCEPT !.automatic_identity_notes = FALSE],
                    files).config

\* the reference image is a local file that cannot be read, and automatic
\* extraction is on: a config was returned all the same
C18_Witness ==
    /\ assembly # None
    /\ Value(arguments).automatic_identity_notes
    /\ base_reference_image = MiaJpg
    /\ files = {}
    /\ Value(assembly).status = "ok"

\* C19 as stated: extract_identity_notes returns an empty result instead of
\* raising on every failure, in the preparation of the reference image or
\* in the completion call.
C19_ExtractionNeverRaises ==
    (extraction # None /\ ExtractionFails)
    => /\ Value(extraction).status = "ok"
       /\ Value(extraction).notes = <<>>

-----------------------------------------------------------------------------
(* SpecRun: the orchestrator.  Two runs on one orchestrator, the second    *)
(* started when the first has ended, with the same arguments and the same  *)
(* collaborator responses; each run has its own progress callback.         *)

MaxRunPages == 2

\* keyword names, as strings
SeedKey == <<"s", "e", "e", "d">>
CameraShotKey ==
    <<"c", "a", "m", "e", "r", "a", "_", "s", "h", "o", "t">>
InputImageKey ==
    <<"i", "n", "p", "u", "t", "_", "i", "m", "a", "g", "e">>

\* the keywords _invoke_image_generation passes by name to generate_image,
\* camera_shot apart
NamedImageParameters ==
    { <<"k", "i", "d", "_", "n", "a", "m", "e">>,
      <<"s", "c", "e", "n", "e", "_",
        "d", "e", "s", "c", "r", "i", "p", "t", "i", "o", "n">>,
      InputImageKey,
      <<"i", "d", "e", "n", "t", "i", "t", "y", "_", "t", "r", "a", "i", "t", "s">>,
      <<"c", "o", "n", "t", "i", "n", "u", "i", "t", "y", "_",
        "n", "o", "t", "e", "s">>,
      <<"s", "u", "p", "p", "o", "r", "t", "i", "n", "g", "_",
        "c", "a", "s", "t", "_", "n", "o", "t", "e", "s">> }

\* a dict without entries
EmptyDict == [k \in {} |-> <<>>]

\* d[k] = v on a copy of the dict d
Put(d, k, v) == [x \in (DOMAIN d) \cup {k} |-> IF x = k THEN v ELSE d[x]]

\* the dict d without the key k
Without(d, k) == [x \in (DOMAIN d) \ {k} |-> d[x]]

\* len(text.split()): the number of whitespace-separated words
WordCount(text) ==
    Cardinality({ i \in 1..Len(text) :
                    /\ text[i] \notin Whitespace
                    /\ (i = 1 \/ text[i - 1] \in Whitespace) })

\* the merge that lets a directive's seed replace the caller's
page_image_kwargs_overrides_win(image_kwargs, d) ==
    LET with_seed ==
            IF d.model_overrides.seed # None
            THEN Put(image_kwargs, SeedKey, Value(d.model_overrides.seed))
            ELSE image_kwargs
    IN  IF /\ d.reference_history_parameter # <<>>
           /\ d.additional_reference_images # <<>>
        THEN Put(with_seed, d.reference_history_parameter,
                 d.additional_reference_images)
        ELSE with_seed

\* _generate_page_assets, the image arguments of a page: the caller's, then
\* the directive's seed and the reference history under keys not yet there
page_image_kwargs(image_kwargs, d) ==
    LET with_seed ==
            IF d.model_overrides.seed # None /\ SeedKey \notin DOMAIN image_kwargs
            THEN Put(image_kwargs, SeedKey, Value(d.model_overrides.seed))
            ELSE image_kwargs
    IN  IF /\ d.reference_history_parameter # <<>>
           /\ d.additional_reference_images # <<>>
           /\ d.reference_history_parameter \notin DOMAIN with_seed
        THEN Put(with_seed, d.reference_history_parameter,
                 d.additional_reference_images)
        ELSE with_seed

\* _invoke_image_generation, up to the call: the arguments generate_image
\* is called with, or TypeError when a keyword is given twice
image_call(prof, scene, reference_image, image_kwargs, d) ==
    LET model_kwargs == Without(image_kwargs, CameraShotKey)
        camera_shot == IF CameraShotKey \in DOMAIN image_kwargs
                       THEN image_kwargs[CameraShotKey] ELSE <<>>
    IN  IF (DOMAIN model_kwargs) \cap NamedImageParameters # {}
        THEN [status |-> "TypeError"]
        ELSE [status |-> "ok",
              args |-> [kid_name |-> prof.name,
                        scene_description |-> scene.scene_description,
                        input_image |-> reference_image,
                        camera_shot |-> camera_shot,
                        identity_traits |-> d.identity_notes,
                        continuity_notes |-> d.continuity_notes,
                        supporting_cast_notes |-> d.supporting_cast_notes,
                        kwargs |-> model_kwargs]]

\* a call of the callback that fails when there is no callback
notify_unguarded(callback, events, stage, stage_payload) ==
    IF callback = "returns"
    THEN [status |-> "ok",
          events |-> Append(events, [stage |-> stage, payload |-> stage_payload])]
    ELSE [status |-> "raised", events |-> events]

\* _notify: the callback, when there is one, is called with the stage and
\* the payload; what it raises propagates
notify(callback, events, stage, stage_payload) ==
    IF callback = "none" THEN [status |-> "ok", events |-> events]
    ELSE IF callback = "raises" THEN [status |-> "raised", events |-> events]
    ELSE [status |-> "ok",
          events |-> Append(events, [stage |-> stage, payload |-> stage_payload])]

\* the mutant of _invoke_image_generation that returns no outputs when
\* the image generator fails
invoke_image_generation_failure_swallowed(prof, scene, reference_image, image_kwargs, d, response) ==
    LET made == image_call(prof, scene, reference_image, image_kwargs, d)
    IN  IF made.status # "ok" THEN [status |-> made.status, called |-> FALSE]
        ELSE [status |-> "ok", called |-> TRUE, args |-> made.args,
              outputs |-> IF response.raises THEN <<>>
                          ELSE normalize_image_outputs(response.outputs)]

\* _invoke_image_generation: the call of generate_image, whose failure
\* propagates, and the normalization of what it returns
invoke_image_generation(prof, scene, reference_image, image_kwargs, d, response) ==
    LET made == image_call(prof, scene, reference_image, image_kwargs, d)
    IN  IF made.status # "ok" THEN [status |-> made.status, called |-> FALSE]
        ELSE IF response.raises
             THEN [status |-> "CollaboratorError", called |-> TRUE,
                   args |-> made.args]
             ELSE [status |-> "ok", called |-> TRUE, args |-> made.args,
                   outputs |-> normalize_image_outputs(response.outputs)]

\* path.suffix.lower()
Suffix(path) ==
    IF \A i \in 1..Len(path) : path[i] # "." THEN <<>>
    ELSE Lower(SubSeq(path,
                      CHOOSE i \in 1..Len(path) :
                          /\ path[i] = "."
                          /\ \A j \in (i + 1)..Len(path) : path[j] # ".",
                      Len(path)))

\* _load_mapping_file: YAML and JSON files are parsed, others refused
load_mapping_file(path, content) ==
    IF Suffix(path) \in { <<".", "y", "a", "m", "l">>, <<".", "y", "m", "l">>,
                          <<".", "j", "s", "o", "n">> }
    THEN [status |-> "ok", data |-> content]
    ELSE [status |-> "ValueError"]

\* the steps of a run in program order, from run_from_profile_file to the
\* return of _run_pipeline; a step named as a stage is that stage's _notify
ProgramOrder ==
    <<"file:parsing", "load_mapping_file", "mapping:parsing", "from_mapping",
      "profile:ready", "story:generating", "generate_story", "story:generated",
      "pages:splitting", "split_story", "pages:ready", "new_state",
      "page:processing", "page_to_scene", "build_directives", "generate_image",
      "append_asset", "record_generation", "page:done",
      "pipeline:packaging", "package", "pipeline:complete", "return",
      "returned">>

\* the step written after pc in the code
StraightLine(pc) ==
    ProgramOrder[(CHOOSE i \in 1..Len(ProgramOrder) : ProgramOrder[i] = pc) + 1]

\* the order of a loop body that goes to page:done without record_generation
SuccessorRecordSkipped(pc, more_pages) ==
    IF pc = "append_asset" THEN "page:done"
    ELSE IF pc \in {"new_state", "page:done"}
         THEN IF more_pages THEN "page:processing" ELSE "pipeline:packaging"
         ELSE StraightLine(pc)

\* the order of a loop body that calls the image generator once more after
\* each call
SuccessorImageRetried(pc, more_pages) ==
    IF pc = "generate_image" THEN "generate_image"
    ELSE IF pc \in {"new_state", "page:done"}
         THEN IF more_pages THEN "page:processing" ELSE "pipeline:packaging"
         ELSE StraightLine(pc)

\* the step that follows pc: the next one in program order, the loop over
\* the pages entered or left according to whether a page remains
Successor(pc, more_pages) ==
    IF pc \in {"new_state", "page:done"}
    THEN IF more_pages THEN "page:processing" ELSE "pipeline:packaging"
    ELSE StraightLine(pc)

NotifyPoints ==
    {"file:parsing", "mapping:parsing", "profile:ready", "story:generating",
     "story:generated", "pages:splitting", "pages:ready", "page:processing",
     "page:done", "pipeline:packaging", "pipeline:complete"}

Ended == {"returned", "raised"}

\* the stage and the payload of the _notify call at the step run.pc
StageOf(run, in) ==
    CASE run.pc = "file:parsing" ->
             [stage |-> "profile:parsing", payload |-> [source |-> in.profile_path]]
      [] run.pc = "mapping:parsing" ->
             [stage |-> "profile:parsing",
              payload |-> [source |-> <<"m", "a", "p", "p", "i", "n", "g">>]]
      [] run.pc = "profile:ready" ->
             [stage |-> "profile:ready",
              payload |-> [name |-> Value(run.profile).name,
                           story_language |-> Value(run.profile).story_language]]
      [] run.pc = "story:generated" ->
             [stage |-> "story:generated",
              payload |-> [word_count |-> WordCount(run.story_markdown)]]
      [] run.pc = "pages:ready" ->
             [stage |-> "pages:ready", payload |-> [total_pages |-> Len(run.pages)]]
      [] run.pc = "page:processing" ->
             [stage |-> "page:processing",
              payload |-> [page_number |-> run.pages[run.index].page_number,
                           page_index |-> run.index,
                           total_pages |-> Len(run.pages),
                           title |-> run.pages[run.index].title]]
      [] run.pc = "page:done" ->
             [stage |-> "page:done",
              payload |-> [page_number |-> run.pages[run.index].page_number,
                           page_index |-> run.index,
                           total_pages |-> Len(run.pages)]]
      [] run.pc \in {"pipeline:packaging", "pipeline:complete"} ->
             [stage |-> run.pc,
              payload |-> [total_pages |-> Len(run.assets),
                           profile_name |-> Value(run.profile).name]]
      [] OTHER -> [stage |-> run.pc, payload |-> EmptyDict]

\* a run that has not taken a step
NewRun(callback, entry) ==
    [pc |-> IF entry = "file" THEN "file:parsing" ELSE "mapping:parsing",
     callback |-> callback,
     error |-> "",
     events |-> <<>>,
     steps |-> <<>>,
     profile |-> None,
     story_markdown |-> <<>>,
     pages |-> <<>>,
     index |-> 1,
     scene |-> None,
     directives |-> None,
     image_outputs |-> <<>>,
     assets |-> <<>>,
     state |-> None,
     package |-> None,
     result |-> None]

\* an exception leaves the run
Raise(run, error) == [run EXCEPT !.pc = "raised", !.error = error]

\* the run goes on to the next step
Advance(run) ==
    [run EXCEPT !.pc = Successor(run.pc, run.index <= Len(run.pages))]

\* a collaborator call or a step on the continuity state, as logged
Step(op, page_number, args) == [op |-> op, page |-> page_number, args |-> args]

\* what a run leaves alone
RunFrame ==
    /\ UNCHANGED <<inputs, original, payload, package>>
    /\ NoContinuityChange
    /\ NoCallChange
    /\ NoAssemblyChange

\* run r may take a step: it has not ended, and the second run starts when
\* the first has ended
Active(r) ==
    /\ runs[r].pc \notin Ended
    /\ r = 1 \/ runs[1].pc \in Ended

SetRun(r, run) == runs' = [runs EXCEPT ![r] = run]

\* self._notify(progress_callback, stage, **payload)
Notify(r) ==
    /\ Active(r)
    /\ runs[r].pc \in NotifyPoints
    /\ LET run == runs[r]
           at == StageOf(run, Value(inputs))
           told == notify(run.callback, run.events, at.stage, at.payload)
       IN  SetRun(r, IF told.status # "ok" THEN Raise(run, "CallbackError")
                     ELSE Advance([run EXCEPT
                                      !.events = told.events,
                                      !.index = IF run.pc = "page:done"
                                                THEN @ + 1 ELSE @]))
    /\ RunFrame

\* data = _load_mapping_file(profile_path)
LoadMappingFile(r) ==
    /\ Active(r)
    /\ runs[r].pc = "load_mapping_file"
    /\ LET run == runs[r]
           loaded == load_mapping_file(Value(inputs).profile_path,
                                       Value(inputs).profile_data)
       IN  SetRun(r, IF loaded.status # "ok" THEN Raise(run, loaded.status)
                     ELSE Advance(run))
    /\ RunFrame

\* profile = KidProfile.from_mapping(profile_data); the fields other than
\* the name are Mia's
FromMapping(r) ==
    /\ Active(r)
    /\ runs[r].pc = "from_mapping"
    /\ LET run == runs[r]
           parsed == from_mapping(Value(inputs).profile_data)
       IN  SetRun(r, IF parsed.status # "ok" THEN Raise(run, parsed.status)
                     ELSE Advance([run EXCEPT
                                      !.profile = Some([Mia EXCEPT
                                                     !.name = parsed.profile.name])]))
    /\ RunFrame

\* story_markdown = self._story_generator.generate_story(profile)
GenerateStory(r) ==
    /\ Active(r)
    /\ runs[r].pc = "generate_story"
    /\ LET run == runs[r]
           called == [run EXCEPT !.steps =
                         Append(@, Step("generate_story", 0,
                                        [profile |-> Value(run.profile)]))]
       IN  SetRun(r, IF Value(inputs).failure.at = "story"
                     THEN Raise(called, "CollaboratorError")
                     ELSE Advance([called EXCEPT
                                      !.story_markdown = Value(inputs).story_markdown]))
    /\ RunFrame

\* pages = self._page_splitter.split_story(story_markdown, profile=profile,
\*                                         desired_pages=desired_pages)
SplitStory(r) ==
    /\ Active(r)
    /\ runs[r].pc = "split_story"
    /\ LET run == runs[r]
           called == [run EXCEPT !.steps =
                         Append(@, Step("split_story", 0,
                                        [story_markdown |-> run.story_markdown,
                                         profile |-> Value(run.profile),
                                         desired_pages |-> Value(inputs).desired_pages]))]
       IN  SetRun(r, IF Value(inputs).failure.at = "splitter"
                     THEN Raise(called, "CollaboratorError")
                     ELSE Advance([called EXCEPT !.pages = Value(inputs).pages]))
    /\ RunFrame

\* the digest of the profile and image of the runs
RunDigest == 5

\* a continuity state kept on the orchestrator: the second run goes on with
\* the state the first run left
NewContinuityStateShared(r) ==
    /\ Active(r)
    /\ runs[r].pc = "new_state"
    /\ LET run == runs[r]
           cfg == IF Value(inputs).continuity_config = None THEN DefaultConfig
                  ELSE Value(Value(inputs).continuity_config)
       IN  SetRun(r, Advance([run EXCEPT
                                 !.assets = <<>>,
                                 !.index = 1,
                                 !.state =
                                     IF r > 1 /\ runs[1].state # None
                                     THEN runs[1].state
                                     ELSE Some(new_state(cfg, Value(run.profile),
                                                         Value(inputs).reference_image,
                                                         RunDigest))]))
    /\ RunFrame

\* continuity_state = IllustrationContinuityState(profile=profile,
\*     base_reference_image=reference_image, config=self._continuity_config)
NewContinuityState(r) ==
    /\ Active(r)
    /\ runs[r].pc = "new_state"
    /\ LET run == runs[r]
           cfg == IF Value(inputs).continuity_config = None THEN DefaultConfig
                  ELSE Value(Value(inputs).continuity_config)
       IN  SetRun(r, Advance([run EXCEPT
                                 !.assets = <<>>,
                                 !.index = 1,
                                 !.state = Some(new_state(cfg, Value(run.profile),
                                                          Value(inputs).reference_image,
                                                          RunDigest))]))
    /\ RunFrame

\* scene = self._scene_generator.page_to_scene(page, profile=profile)
PageToScene(r) ==
    /\ Active(r)
    /\ runs[r].pc = "page_to_scene"
    /\ LET run == runs[r]
           page == run.pages[run.index]
           called == [run EXCEPT !.steps =
                         Append(@, Step("page_to_scene", page.page_number,
                                        [page |-> page,
                                         profile |-> Value(run.profile)]))]
       IN  SetRun(r, IF Value(inputs).failure = [at |-> "scene", page |-> run.index]
                     THEN Raise(called, "CollaboratorError")
                     ELSE Advance([called EXCEPT
                                      !.scene = Some(Value(inputs).scenes[run.index])]))
    /\ RunFrame

\* directives = continuity_state.build_directives(scene=scene,
\*                                                page_number=page.page_number)
BuildPageDirectives(r) ==
    /\ Active(r)
    /\ runs[r].pc = "build_directives"
    /\ LET run == runs[r]
           page == run.pages[run.index]
           st == Value(run.state)
       IN  SetRun(r, Advance([run EXCEPT
               !.steps = Append(@, Step("build_directives", page.page_number,
                                        [page_number |-> page.page_number])),
               !.directives =
                   Some(build_directives(st.config, st.base_reference_image,
                                         st.reference_history,
                                         st.supporting_history,
                                         st.identity_notes, st.base_seed,
                                         Value(run.scene), page.page_number))]))
    /\ RunFrame

\* the merge of the image arguments and
\* image_outputs = self._invoke_image_generation(...)
InvokeImageGeneration(r) ==
    /\ Active(r)
    /\ runs[r].pc = "generate_image"
    /\ LET run == runs[r]
           page == run.pages[run.index]
           d == Value(run.directives)
           response ==
               [raises |-> Value(inputs).failure = [at |-> "image", page |-> run.index],
                outputs |-> Value(inputs).outputs[run.index]]
           got == invoke_image_generation(
                      Value(run.profile), Value(run.scene),
                      d.primary_reference_image,
                      page_image_kwargs(Value(inputs).image_kwargs, d),
                      d, response)
           called == IF got.called
                     THEN [run EXCEPT !.steps =
                              Append(@, Step("generate_image", page.page_number,
                                             got.args))]
                     ELSE run
       IN  SetRun(r, IF got.status # "ok" THEN Raise(called, got.status)
                     ELSE Advance([called EXCEPT !.image_outputs = got.outputs]))
    /\ RunFrame

\* assets.append(PageAsset(page=page, scene=scene, image_outputs=image_outputs))
AppendAsset(r) ==
    /\ Active(r)
    /\ runs[r].pc = "append_asset"
    /\ LET run == runs[r]
           page == run.pages[run.index]
       IN  SetRun(r, Advance([run EXCEPT
               !.steps = Append(@, Step("append_asset", page.page_number,
                                        [page_number |-> page.page_number])),
               !.assets = Append(@, [page |-> page,
                                     scene |-> Value(run.scene),
                                     image_outputs |-> run.image_outputs])]))
    /\ RunFrame

\* continuity_state.record_generation(scene=scene, image_outputs=image_outputs)
RecordPage(r) ==
    /\ Active(r)
    /\ runs[r].pc = "record_generation"
    /\ LET run == runs[r]
           page == run.pages[run.index]
           st == Value(run.state)
       IN  SetRun(r, Advance([run EXCEPT
               !.steps = Append(@, Step("record_generation", page.page_number,
                                        [page_number |-> page.page_number])),
               !.state = Some([st EXCEPT
                   !.supporting_history =
                       RecordSupporting(st.config, st.supporting_history,
                                        Value(run.scene)),
                   !.reference_history =
                       RecordReference(st.config, st.reference_history,
                                       run.image_outputs)])]))
    /\ RunFrame

\* package = StoryPackage(profile=profile, story_markdown=story_markdown,
\*                        pages=page_assets)
Package(r) ==
    /\ Active(r)
    /\ runs[r].pc = "package"
    /\ LET run == runs[r]
       IN  SetRun(r, Advance([run EXCEPT
               !.package = Some([profile |-> Value(run.profile),
                                 story_markdown |-> run.story_markdown,
                                 pages |-> run.assets])]))
    /\ RunFrame

\* return package
Return(r) ==
    /\ Active(r)
    /\ runs[r].pc = "return"
    /\ SetRun(r, Advance([runs[r] EXCEPT !.result = runs[r].package]))
    /\ RunFrame

DigitChars == <<"1", "2", "3", "4", "5", "6", "7", "8", "9">>

\* the pages split_story returns: numbered 1..n in order
RunPages(n) ==
    [i \in 1..n |-> [page_number |-> i,
                     title |-> <<"T", DigitChars[i]>>,
                     story_text |-> <<"t">>]]

\* the scenes page_to_scene returns; the first has supporting details
RunScenes(n) ==
    [i \in 1..n |-> [page_number |-> i,
                     scene_description |-> <<"s", DigitChars[i]>>,
                     outfit_description |-> <<"o">>,
                     facial_expression |-> <<"f">>,
                     pose_description |-> <<"p">>,
                     supporting_details |-> IF i = 1 THEN <<"r">> ELSE <<>>]]

\* what generate_image returns page by page
RunOutputs(n) == [i \in 1..n |-> <<(<<"u", DigitChars[i]>>)>>]

\* which collaborator call fails in the runs, if any
RunFailures(n) ==
    { [at |-> "none", page |-> 0], [at |-> "story", page |-> 0],
      [at |-> "splitter", page |-> 0] }
    \cup { [at |-> at, page |-> k] : at \in {"scene", "image"}, k \in 1..n }

\* the image arguments of the caller
RunImageKwargs ==
    { EmptyDict,
      Put(Put(EmptyDict, SeedKey, 99), CameraShotKey, <<"w">>),
      Put(EmptyDict, RefsKey, <<(<<"x">>)>>),
      Put(EmptyDict, InputImageKey, <<"z">>) }

\* a config with a reference history of one, promotion and a history
\* parameter, as the assembly resolves it
HistoryConfig ==
    build_illustration_continuity_config(
        Mia, MiaJpg,
        [NoArguments EXCEPT !.reference_history_size = Some(1),
                            !.reference_history_parameter = RefsKey,
                            !.promote_latest_reference = Some(TRUE)],
        {MiaJpg}).config

YamlPath == <<"p", ".", "Y", "a", "m", "l">>
TextPath == <<"p", ".", "t", "x", "t">>

RunInputs ==
    UNION { { [entry |-> entry[1],
               profile_path |-> entry[2],
               profile_data |-> data,
               desired_pages |-> None,
               reference_image |-> MiaJpg,
               image_kwargs |-> kwargs,
               continuity_config |-> cfg,
               story_markdown |-> <<"S", " ", "t">>,
               pages |-> RunPages(n),
               scenes |-> RunScenes(n),
               outputs |-> RunOutputs(n),
               failure |-> failure,
               callback |-> callback] :
              entry \in { <<"mapping", <<>>>>, <<"file", YamlPath>>,
                          <<"file", TextPath>> },
              data \in { [keys |-> {"name"}, name |-> Mia.name],
                         [keys |-> {}, name |-> <<>>] },
              kwargs \in RunImageKwargs,
              cfg \in { None, Some(HistoryConfig) },
              failure \in RunFailures(n),
              callback \in {"returns", "raises"} } :
            n \in 1..MaxRunPages }

InitRun ==
    /\ Construct(DefaultConfig, Mia, MiaJpg, RunDigest)
    /\ NoPackage
    /\ NoAssembly
    /\ NoCall
    /\ \E in \in RunInputs :
           /\ inputs = Some(in)
           /\ runs = <<NewRun("none", in.entry), NewRun(in.callback, in.entry)>>

NextRun ==
    \E r \in 1..2 :
        \/ Notify(r)
        \/ LoadMappingFile(r)
        \/ FromMapping(r)
        \/ GenerateStory(r)
        \/ SplitStory(r)
        \/ NewContinuityState(r)
        \/ PageToScene(r)
        \/ BuildPageDirectives(r)
        \/ InvokeImageGeneration(r)
        \/ AppendAsset(r)
        \/ RecordPage(r)
        \/ Package(r)
        \/ Return(r)

SpecRun == InitRun /\ [][NextRun]_vars

\* the stages a callback was told of, in order
Stages(run) == [i \in 1..Len(run.events) |-> run.events[i].stage]

\* the stages of a successful run over n pages
ExpectedStages(n) ==
    <<"profile:parsing", "profile:ready", "story:generating", "story:generated",
      "pages:splitting", "pages:ready">>
    \o [i \in 1..(2 * n) |-> IF i % 2 = 1 THEN "page:processing" ELSE "page:done"]
    \o <<"pipeline:packaging", "pipeline:complete">>

\* C14 as stated: in every successful run with a progress callback, started
\* from a mapping or from a file, the stages emitted are exactly
\* profile:parsing, profile:ready, story:generating, story:generated,
\* pages:splitting, pages:ready, then page:processing and page:done once per
\* page in page order, then pipeline:packaging and pipeline:complete; none is
\* skipped, repeated or out of order.
C14_StagesExactlyOnceInOrder ==
    \A r \in 1..Len(runs) :
        (runs[r].pc = "returned" /\ runs[r].callback = "returns")
        => LET run == runs[r]
               n == Len(run.pages)
           IN  /\ Stages(run) = ExpectedStages(n)
               /\ \A i \in 1..n :
                      /\ run.events[5 + 2 * i].payload.page_number
                             = run.pages[i].page_number
                      /\ run.events[6 + 2 * i].payload.page_number
                             = run.pages[i].page_number

PageOps ==
    <<"page_to_scene", "build_directives", "generate_image", "append_asset",
      "record_generation">>

\* the steps of the loop over the pages that a run has taken, in order
PageSteps(run) ==
    SelectSeq(run.steps, LAMBDA step : \E i \in 1..Len(PageOps) : PageOps[i] = step.op)

\* C15: in a run the pages are processed in list order, and for each page
\* the steps are scene generation, build_directives, image generation, the
\* append of the page asset, record_generation, in this order, so that
\* build_directives and record_generation alternate on the one continuity
\* state and record_generation for a page is over before build_directives
\* for the next page starts; a run that returns has taken them all.
C15_PageStepsInOrder ==
    \A r \in 1..Len(runs) :
        LET run == runs[r]
            taken == PageSteps(run)
        IN  /\ Len(taken) <= Len(PageOps) * Len(run.pages)
            /\ \A i \in 1..Len(taken) :
                   /\ taken[i].op = PageOps[((i - 1) % Len(PageOps)) + 1]
                   /\ taken[i].page
                          = run.pages[((i - 1) \div Len(PageOps)) + 1].page_number
            /\ run.pc = "returned" => Len(taken) = Len(PageOps) * Len(run.pages)

\* a run over two pages on a config with a reference history has returned
C15_Witness ==
    \E r \in 1..Len(runs) :
        /\ runs[r].pc = "returned"
        /\ Len(runs[r].pages) = 2
        /\ Value(inputs).continuity_config # None
        /\ Len(PageSteps(runs[r])) = 10

\* the generate_image calls of a run
ImageCalls(run) == SelectSeq(run.steps, LAMBDA step : step.op = "generate_image")

\* the history parameter name of the config of the runs, if any
RunHistoryParameters ==
    IF Value(inputs).continuity_config = None THEN {}
    ELSE { Value(Value(inputs).continuity_config).reference_history_parameter }

\* C16: for every key of the caller's image arguments, the value passed to
\* the image generator on every page is the caller's; the seed of the
\* directives and the reference history are added only under keys the
\* caller did not supply.
C16_CallerArgumentsWin ==
    \A r \in 1..Len(runs) :
        \A i \in 1..Len(ImageCalls(runs[r])) :
            LET passed == ImageCalls(runs[r])[i].args
                caller == Value(inputs).image_kwargs
            IN  /\ \A k \in DOMAIN caller :
                       IF k = CameraShotKey THEN passed.camera_shot = caller[k]
                       ELSE /\ k \in DOMAIN passed.kwargs
                            /\ passed.kwargs[k] = caller[k]
                /\ (DOMAIN passed.kwargs) \ (DOMAIN caller)
                       \subseteq ({SeedKey} \cup RunHistoryParameters)

\* on page 2 of a run with a reference history, the caller's own value under
\* the history parameter is passed, and the seed of the directives is added
C16_Witness ==
    \E r \in 1..Len(runs) :
        /\ Value(inputs).continuity_config # None
        /\ RefsKey \in DOMAIN Value(inputs).image_kwargs
        /\ Len(ImageCalls(runs[r])) = 2
        /\ ImageCalls(runs[r])[2].args.kwargs[RefsKey] = <<(<<"x">>)>>
        /\ SeedKey \in DOMAIN ImageCalls(runs[r])[2].args.kwargs

\* the image generator was called on the page where it fails
ImageFailedOn(run, k) ==
    /\ Value(inputs).failure = [at |-> "image", page |-> k]
    /\ \E i \in 1..Len(run.steps) :
           run.steps[i].op = "generate_image" /\ run.steps[i].page = k

\* C17: if the image generator fails on page k the run ends in error: no
\* package is returned, no step is taken for a later page, record_generation
\* is not called for page k, and neither pipeline:packaging nor
\* pipeline:complete is emitted.
C17_ImageFailureHaltsRun ==
    \A r \in 1..Len(runs) :
        \A k \in 1..MaxRunPages + 1 :
            ImageFailedOn(runs[r], k)
            => LET run == runs[r]
               IN  /\ run.pc = "raised"
                   /\ run.result = None
                   /\ run.package = None
                   /\ \A i \in 1..Len(run.steps) :
                          /\ run.steps[i].page <= k
                          /\ ~(run.steps[i].op = "record_generation"
                               /\ run.steps[i].page = k)
                   /\ Len(run.assets) = k - 1
                   /\ \A i \in 1..Len(run.events) :
                          run.events[i].stage \notin
                              {"pipeline:packaging", "pipeline:complete"}

\* the image generator failed on page 2 of a run with a callback, after
\* page 1 was recorded
C17_Witness ==
    \E r \in 1..Len(runs) :
        /\ ImageFailedOn(runs[r], 2)
        /\ runs[r].callback = "returns"
        /\ runs[r].pc = "raised"
        /\ \E i \in 1..Len(runs[r].steps) :
               runs[r].steps[i].op = "record_generation" /\ runs[r].steps[i].page = 1
        /\ Len(runs[r].events) = 9

\* the collaborator calls of a run, with their arguments, in order
CollaboratorCalls(run) ==
    SelectSeq(run.steps,
              LAMBDA step : step.op \in {"generate_story", "split_story",
                                         "page_to_scene", "generate_image"})

\* C20: for the same inputs and collaborator responses, a run without a
\* callback and a run with a callback that returns normally make the same
\* collaborator calls with the same arguments in the same order, and end
\* alike, returning equal packages.
C20_CallbackDoesNotInterfere ==
    ( /\ runs[1].pc \in Ended
      /\ runs[2].pc \in Ended
      /\ runs[1].callback = "none"
      /\ runs[2].callback = "returns" )
    => /\ CollaboratorCalls(runs[1]) = CollaboratorCalls(runs[2])
       /\ runs[1].pc = runs[2].pc
       /\ runs[1].error = runs[2].error
       /\ runs[1].result = runs[2].result

\* both runs over two pages have returned, the second having told its
\* callback of every stage
C20_Witness ==
    /\ runs[1].pc = "returned"
    /\ runs[2].pc = "returned"
    /\ runs[1].callback = "none"
    /\ runs[2].callback = "returns"
    /\ Len(runs[2].pages) = 2
    /\ Len(runs[2].events) >= 10
    /\ runs[1].events = <<>>

-----------------------------------------------------------------------------
(* SpecSupporting: the order of the continuity notes and the supporting    *)
(* history, claims C26 and C30.  As SpecNotes, but the pages recorded have *)
(* short supporting details, so the histories stay small; a line longer    *)
(* than the summary limit comes as the current scene of build_directives.  *)

RecordedScenes == { scene \in NoteScenes : Len(scene.supporting_details) <= SummaryLimit }

InitSupporting ==
    /\ \E cfg \in NoteConfigs : Construct(cfg, Mia, MiaJpg, 5)
    /\ NoPackage
    /\ NoAssembly
    /\ NoRuns
    /\ NoCall

NextSupporting ==
    \/ \E scene \in NoteScenes : BuildDirectives(scene, CurrentPage)
    \/ \E scene \in RecordedScenes : RecordGeneration(scene, <<Url("a")>>)

SpecSupporting == InitSupporting /\ [][NextSupporting]_vars


\* the static notes of the config that are not blank, each without its
\* surrounding whitespace, in config order
NonBlankStaticNotes ==
    SelectSeq([i \in 1..Len(config.static_continuity_notes) |->
                   Strip(config.static_continuity_notes[i])],
              LAMBDA note : note # <<>>)

\* the supporting history as the directives propagate it
PropagatedNotes ==
    IF config.propagate_supporting_details THEN supporting_history ELSE <<>>

\* the place of the first occurrence of x in items
FirstIndex(x, items) ==
    CHOOSE i \in 1..Len(items) :
        items[i] = x /\ \A j \in 1..(i - 1) : items[j] # x

\* notes is the static notes, then the propagated history, then the notes of
\* the scene that the list did not hold yet, in the scene's order
NotesOrdered(notes, scene) ==
    LET lead == NonBlankStaticNotes \o PropagatedNotes
        current == summarize_supporting_details(scene.supporting_details)
        rest == SubSeq(notes, Len(lead) + 1, Len(notes))
    IN  /\ Len(notes) >= Len(lead)
        /\ SubSeq(notes, 1, Len(lead)) = lead
        /\ \A i \in 1..Len(rest) : In(rest[i], current) /\ ~In(rest[i], lead)
        /\ \A i \in 1..Len(current) : current[i] # <<>> => In(current[i], notes)
        /\ \A i, j \in 1..Len(rest) :
               i < j => FirstIndex(rest[i], current) < FirstIndex(rest[j], current)

\* C26: build_directives orders the continuity notes as the non-blank static
\* notes of the config in config order, then the entries of the supporting
\* history most-recent-first (only when propagation is enabled), then the
\* supporting notes of the current scene that are not already in the list.
C26_NotesOrder ==
    directives # None
    => NotesOrdered(Value(directives).continuity_notes, Value(current_scene))

\* directives made of a static note, a propagated note and a note of the
\* current scene, in this order
C26_Witness ==
    /\ directives # None
    /\ config.propagate_supporting_details
    /\ NonBlankStaticNotes # <<>>
    /\ supporting_history # <<>>
    /\ Len(Value(directives).continuity_notes)
           > Len(NonBlankStaticNotes) + Len(supporting_history)
    /\ SubSeq(Value(directives).continuity_notes, 1, Len(NonBlankStaticNotes))
           = NonBlankStaticNotes

\* C30 as stated: with propagation enabled the supporting history holds at
\* most supporting_details_history entries, and no two equal entries.
C30_AsStated ==
    config.propagate_supporting_details
    => /\ Len(supporting_history) <= config.supporting_details_history
       /\ PairwiseDistinct(supporting_history)

\* the capacity of the supporting history
SupportingCapacity == Max(0, config.supporting_details_history)

\* after is before with notes of the scene pushed to its front, the latest
\* pushed first, and its oldest entries dropped only for lack of room
PushedToFront(before, after, current) ==
    \E kept \in 0..Len(before) :
        LET pushed == Len(after) - kept
        IN  /\ pushed >= 0
            /\ SubSeq(after, pushed + 1, Len(after)) = SubSeq(before, 1, kept)
            /\ kept < Len(before) => Len(after) = SupportingCapacity
            /\ pushed = 0 =>
                   \A i \in 1..Len(current) :
                       \/ current[i] = <<>>
                       \/ In(current[i], before)
                       \/ SupportingCapacity = 0
            /\ \A i \in 1..pushed :
                   /\ after[i] # <<>>
                   /\ In(after[i], current)
                   /\ kept = Len(before) => ~In(after[i], before)
            /\ \A i, j \in 1..pushed :
                   i < j => \E a, b \in 1..Len(current) :
                                a > b /\ current[a] = after[i] /\ current[b] = after[j]

\* C30 amended: with propagation enabled the supporting history holds at
\* most max(0, supporting_details_history) entries and no two equal entries;
\* record_generation pushes each novel note of the scene to the front, does
\* not add a note the buffer holds, and drops the oldest entries only when
\* the capacity is exceeded.
C30_SupportingHistoryBounded ==
    /\ [](config.propagate_supporting_details
          => /\ Len(supporting_history) <= SupportingCapacity
             /\ PairwiseDistinct(supporting_history))
    /\ [][(config.propagate_supporting_details /\ calls' # calls)
          => PushedToFront(supporting_history, supporting_history',
                           summarize_supporting_details(
                               calls'[1].scene.supporting_details))]_vars

\* a full supporting history of two: pages noting r and s, then r again
\* (held, not added again), then R, which is pushed to the front while the
\* oldest entry, r, is dropped
C30_Witness ==
    /\ config.propagate_supporting_details
    /\ config.supporting_details_history = 2
    /\ Len(calls) = 3
    /\ calls[3].scene.supporting_details
           = <<"-", " ", "r", "\n", "<bullet>", " ", "s", "\r">>
    /\ calls[2].scene.supporting_details = <<"r">>
    /\ calls[1].scene.supporting_details = <<"R">>
    /\ supporting_history = << <<"R">>, <<"s">> >>

-----------------------------------------------------------------------------
(* The reference selection and the reference history: claims C27 to C29,   *)
(* under Spec.                                                             *)

\* C27: when history-carrying is disabled, for every page and after any
\* record_generation calls, build_directives yields the base reference image
\* as primary, no additional references and no history parameter name,
\* whatever the promotion flag, the history size and the configured
\* parameter name are, and the reference history stays empty.
C27_NoCarryNoHistory ==
    ~config.carry_reference_image_forward
    => /\ reference_history = <<>>
       /\ directives # None
          => /\ Value(directives).primary_reference_image = base_reference_image
             /\ Value(directives).additional_reference_images = <<>>
             /\ Value(directives).reference_history_parameter = <<>>

\* directives for page 3 of a config with carrying disabled but promotion
\* on, a size of 2 and a parameter name, after two pages with outputs
C27_Witness ==
    /\ ~config.carry_reference_image_forward
    /\ config.promote_latest_reference
    /\ config.reference_history_size = 2
    /\ config.reference_history_parameter = RefsKey
    /\ Len(calls) = 2
    /\ EveryCallHasOutput
    /\ directives # None

\* C28: when history-carrying is enabled and promotion disabled, for every
\* page and every reachable state build_directives yields the base
\* reference image as primary and the whole reference-history buffer as
\* additional references, most-recent-first: of two references the earlier
\* one is the output of a later page.
C28_UnpromotedSelection ==
    ( /\ config.carry_reference_image_forward
      /\ ~config.promote_latest_reference
      /\ directives # None )
    => LET additional == Value(directives).additional_reference_images
       IN  /\ Value(directives).primary_reference_image = base_reference_image
           /\ additional = reference_history
           /\ \A i \in 1..Len(additional) :
                  \E a \in 1..Len(calls) : TrimmedOutputs[a] = additional[i]
           /\ \A i, j \in 1..Len(additional) :
                  i < j => \E a, b \in 1..Len(calls) :
                               /\ a < b
                               /\ TrimmedOutputs[a] = additional[i]
                               /\ TrimmedOutputs[b] = additional[j]

\* directives without promotion whose additional references are the two
\* latest distinct outputs, the latest first
C28_Witness ==
    /\ config.carry_reference_image_forward
    /\ ~config.promote_latest_reference
    /\ directives # None
    /\ Len(calls) = 3
    /\ Len(reference_history) = 2
    /\ Value(directives).additional_reference_images
           = <<TrimmedOutputs[1], TrimmedOutputs[2]>>
    /\ Value(directives).primary_reference_image = MiaJpg

\* record_generation left the reference history as it was, or pushed url to
\* its front and kept the entries that were there, in order, but for the
\* oldest ones
AtMostOnePushed(before, after, url) ==
    IF url = <<>> \/ In(url, before) THEN after = before
    ELSE \/ after = before
         \/ /\ after # <<>>
            /\ Head(after) = url
            /\ Len(after) <= Len(before) + 1
            /\ Tail(after) = SubSeq(before, 1, Len(after) - 1)

\* C29 as stated: with history-carrying enabled each record_generation call
\* adds at most one entry to the reference history, the first non-blank
\* image output, pushed to the front only if the buffer does not hold it;
\* later outputs of the page are never stored and the buffer never holds
\* the same reference twice.
C29_AsStated ==
    /\ [](config.carry_reference_image_forward
          => PairwiseDistinct(reference_history))
    /\ [][(config.carry_reference_image_forward /\ calls' # calls)
          => AtMostOnePushed(reference_history, reference_history',
                             RawFirst(calls'[1].image_outputs))]_vars

\* C29 amended: the entry added is the first non-blank image output with
\* its surrounding whitespace removed, pushed to the front only if the
\* buffer does not hold that trimmed value.
C29_OneReferencePerPage ==
    /\ [](config.carry_reference_image_forward
          => PairwiseDistinct(reference_history))
    /\ [][(config.carry_reference_image_forward /\ calls' # calls)
          => /\ AtMostOnePushed(reference_history, reference_history',
                                Strip(RawFirst(calls'[1].image_outputs)))
             /\ (/\ Strip(RawFirst(calls'[1].image_outputs)) # <<>>
                 /\ ~In(Strip(RawFirst(calls'[1].image_outputs)), reference_history))
                => reference_history' # reference_history]_vars

\* a page with the outputs a and c was recorded after a page with b: the
\* buffer holds a and b, and not c
C29_Witness ==
    /\ config.carry_reference_image_forward
    /\ Len(calls) = 2
    /\ calls[1].image_outputs = <<Url("a"), Url("c")>>
    /\ calls[2].image_outputs = <<Url("b")>>
    /\ reference_history = <<Url("a"), Url("b")>>

-----------------------------------------------------------------------------
(* No retry, and the package of a run: claim C25, under SpecRun.           *)

\* how many times a run has taken the step op for the page
TimesTaken(run, op, page_number) ==
    Cardinality({ i \in 1..Len(run.steps) :
                      run.steps[i].op = op /\ run.steps[i].page = page_number })

\* C25: in a run over N pages in which every collaborator call succeeds,
\* story generation and page splitting are each invoked exactly once, scene
\* generation and image generation exactly once per page (no step is ever
\* taken twice), and the run ends after pipeline:complete, returning a
\* package with exactly N page assets in page order; such a run ends in
\* error only for its own arguments or its callback.
C25_OnceEachAndComplete ==
    \A r \in 1..Len(runs) :
        LET run == runs[r]
            N == Len(run.pages)
        IN  /\ \A i \in 1..Len(run.steps) :
                   TimesTaken(run, run.steps[i].op, run.steps[i].page) = 1
            /\ run.pc = "returned"
               => /\ TimesTaken(run, "generate_story", 0) = 1
                  /\ TimesTaken(run, "split_story", 0) = 1
                  /\ N = Len(Value(inputs).pages)
                  /\ \A i \in 1..N :
                         /\ TimesTaken(run, "page_to_scene", run.pages[i].page_number) = 1
                         /\ TimesTaken(run, "generate_image", run.pages[i].page_number) = 1
                  /\ Len(ImageCalls(run)) = N
                  /\ run.result # None
                  /\ Len(Value(run.result).pages) = N
                  /\ \A i \in 1..N :
                         /\ Value(run.result).pages[i].page = Value(inputs).pages[i]
                         /\ Value(run.result).pages[i].scene = Value(inputs).scenes[i]
                         /\ Value(run.result).pages[i].image_outputs
                                = normalize_image_outputs(Value(inputs).outputs[i])
                  /\ run.callback = "returns"
                     => run.events[Len(run.events)].stage = "pipeline:complete"
            /\ (run.pc = "raised" /\ Value(inputs).failure.at = "none")
               => run.error # "CollaboratorError"

\* a run over two pages, every collaborator succeeding, returned its package
C25_Witness ==
    \E r \in 1..Len(runs) :
        /\ runs[r].pc = "returned"
        /\ Value(inputs).failure.at = "none"
        /\ Len(runs[r].pages) = 2
        /\ runs[r].callback = "returns"
        /\ Len(Value(runs[r].result).pages) = 2
        /\ Len(ImageCalls(runs[r])) = 2

-----------------------------------------------------------------------------
(* Calls of single functions: StoryPageSplitter.split_story,               *)
(* normalize_image_outputs and the continuity notes of                     *)
(* KidProfile.from_mapping.  A JSON number or string is given by its kind: *)
(* an int n, a float with whole part n (exact or not), a text that int()   *)
(* reads as n or rejects.                                                  *)

DEFAULT_PAGE_COUNT_RANGE == <<12, 18>>

IntValue(n) == [kind |-> "int", n |-> n]
FloatValue(n, exact) == [kind |-> "float", n |-> n, exact |-> exact]
NumeralValue(n) == [kind |-> "numeral", n |-> n]
WordValue == [kind |-> "word"]

\* int(value): a float is truncated, a numeral string is read, any other
\* text is rejected
ToInt(value) ==
    IF value.kind = "word" THEN [status |-> "ValueError"]
    ELSE [status |-> "ok", n |-> value.n]

\* StoryPageSplitter._parse_pages_json, on the completion's text by what
\* json.loads makes of it
parse_pages_json(response) ==
    CASE response.kind = "invalid_json" -> [status |-> "ValueError"]
      [] response.kind = "not_object" -> [status |-> "AttributeError"]
      [] response.kind = "no_pages_list" -> [status |-> "ValueError"]
      [] OTHER -> [status |-> "ok", pages |-> response.pages]

\* _convert_to_pages, the body of the loop for one item
ConvertItem(item) ==
    IF item.kind # "object" THEN [status |-> "ValueError"]
    ELSE IF ~({"page_number", "title", "story_text"} \subseteq item.keys)
    THEN [status |-> "ValueError"]
    ELSE IF ToInt(item.page_number).status # "ok" THEN [status |-> "ValueError"]
    ELSE IF Strip(item.title) = <<>> \/ Strip(item.story_text) = <<>>
    THEN [status |-> "ValueError"]
    ELSE [status |-> "ok",
          page |-> [page_number |-> ToInt(item.page_number).n,
                    title |-> Strip(item.title),
                    story_text |-> Strip(item.story_text)]]

\* StoryPageSplitter._convert_to_pages
RECURSIVE convert_to_pages(_, _)
convert_to_pages(pages_data, pages) ==
    IF pages_data = <<>> THEN [status |-> "ok", pages |-> pages]
    ELSE LET got == ConvertItem(Head(pages_data))
         IN  IF got.status # "ok" THEN [status |-> got.status]
             ELSE convert_to_pages(Tail(pages_data), Append(pages, got.page))

\* StoryPageSplitter._validate_page_sequence
validate_page_sequence(pages, lower, upper) ==
    IF ~(lower <= Len(pages) /\ Len(pages) <= upper) THEN "ValueError"
    ELSE IF \E expected \in 1..Len(pages) : pages[expected].page_number # expected
    THEN "ValueError"
    ELSE "ok"

\* StoryPageSplitter.split_story: what it raises or returns, whether the
\* completion was invoked, and the page count asked of it
split_story(story_markdown, desired_pages, target_page_range, response) ==
    LET desired_count == IF desired_pages = None \/ desired_pages = Some(0)
                         THEN (target_page_range[1] + target_page_range[2]) \div 2
                         ELSE Value(desired_pages)
        lower == target_page_range[1]
        upper == target_page_range[2]
        parsed == parse_pages_json(response)
        converted == convert_to_pages(parsed.pages, <<>>)
    IN  IF Strip(story_markdown) = <<>>
        THEN [status |-> "ValueError", invoked |-> FALSE]
        ELSE IF ~(lower <= desired_count /\ desired_count <= upper)
        THEN [status |-> "ValueError", invoked |-> FALSE]
        ELSE IF response.kind = "raises"
        THEN [status |-> "CompletionError", invoked |-> TRUE,
              desired_count |-> desired_count]
        ELSE IF parsed.status # "ok"
        THEN [status |-> parsed.status, invoked |-> TRUE,
              desired_count |-> desired_count]
        ELSE IF converted.status # "ok"
        THEN [status |-> converted.status, invoked |-> TRUE,
              desired_count |-> desired_count]
        ELSE IF validate_page_sequence(converted.pages, lower, upper) # "ok"
        THEN [status |-> validate_page_sequence(converted.pages, lower, upper),
              invoked |-> TRUE, desired_count |-> desired_count]
        ELSE [status |-> "ok", invoked |-> TRUE, desired_count |-> desired_count,
              pages |-> converted.pages]

\* a mapping item of the notes, an absent key given as None
MappingValue(description, note, value) ==
    [kind |-> "mapping", description |-> description, note |-> note,
     value |-> value]

\* _normalize_continuity_notes, the inner _normalize_string
NormalizeString(text) == CleanLines(SplitLines(ReplaceCR(text)))

\* bool(value) of a tagged value
Truthy(value) ==
    CASE value.kind = "none" -> FALSE
      [] value.kind = "list" -> value.items # <<>>
      [] OTHER -> value.text # <<>>

\* a or b or c
FirstTruthy(a, b, c) == IF Truthy(a) THEN a ELSE IF Truthy(b) THEN b ELSE c

\* _normalize_continuity_notes, the branch of the loop for one item
NormalizeNoteItem(item) ==
    CASE item.kind = "str" -> NormalizeString(item.text)
      [] item.kind = "mapping" ->
             LET description == FirstTruthy(item.description, item.note, item.value)
             IN  IF description.kind = "str" THEN NormalizeString(description.text)
                 ELSE <<>>
      [] item.kind = "none" -> <<>>
      [] OTHER -> NormalizeString(item.text)

RECURSIVE NormalizeNoteItems(_)
NormalizeNoteItems(items) ==
    IF items = <<>> THEN <<>>
    ELSE NormalizeNoteItem(Head(items)) \o NormalizeNoteItems(Tail(items))

\* _normalize_continuity_notes
normalize_continuity_notes(value) ==
    CASE value.kind = "none" -> <<>>
      [] value.kind = "str" -> NormalizeString(value.text)
      [] value.kind = "list" -> NormalizeNoteItems(value.items)
      [] OTHER -> NormalizeString(value.text)

\* KidProfile.from_mapping, the continuity notes of the profile it builds
from_mapping_continuity_notes(data) ==
    normalize_continuity_notes(
        FirstTruthy(data.continuity_notes, data.wardrobe_notes,
                    data.visual_continuity_notes))

\* the longest list given to normalize_image_outputs and as continuity notes
MaxListLen == 2

\* the most pages in a response of the completion
MaxSplitPages == 4

\* the page range of a splitter built with target_page_range=(2, 3)
SmallRange == <<2, 3>>

ImageLeaves ==
    { StrValue(<<"a">>), StrValue(<<"b", "c">>), StrValue(<<>>), NoneValue,
      BytesValue(<<"x", "<invalid>">>), OtherValue(<<"7">>) }

ImageItems ==
    { StrValue(<<"a">>), StrValue(<<"c", "d">>), NoneValue,
      ListValue(<<StrValue(<<"a">>), StrValue(<<"b">>)>>),
      ListValue(<<StrValue(<<"a">>), StrValue(<<"c", "d">>)>>),
      ListValue(<<ListValue(<<StrValue(<<"b">>), StrValue(<<"c", "d">>)>>),
                  ListValue(<<NoneValue>>)>>),
      ListValue(<<>>) }

ImageRaws ==
    ImageLeaves
    \cup { ListValue(q) : q \in SeqsUpTo(ImageLeaves, MaxListLen) }
    \cup { ListValue(q) : q \in SeqsUpTo(ImageItems, MaxListLen) }

NoteItems ==
    { StrValue(<<"a">>), StrValue(<<"A">>),
      StrValue(<<" ", "-", " ", "b", " ", "\n", "a", "\r">>),
      MappingValue(NoneValue, StrValue(<<"c">>), NoneValue),
      MappingValue(OtherValue(<<"3">>), StrValue(<<"c">>), NoneValue),
      NoneValue, OtherValue(<<"3">>) }

NoteValues ==
    { NoneValue, StrValue(<<>>), OtherValue(<<"5">>),
      StrValue(<<"-", " ", "a", "\n", "<bullet>", " ", "A", "\r">>) }
    \cup { ListValue(q) : q \in SeqsUpTo(NoteItems, MaxListLen) }

\* the mappings given to KidProfile.from_mapping, by their notes keys
NotesData ==
    { [continuity_notes |-> v, wardrobe_notes |-> NoneValue,
       visual_continuity_notes |-> NoneValue] : v \in NoteValues }
    \cup { [continuity_notes |-> v, wardrobe_notes |-> StrValue(<<"w">>),
            visual_continuity_notes |-> StrValue(<<"v">>)] :
           v \in { NoneValue, ListValue(<<>>), StrValue(<<"a">>) } }
    \cup { [continuity_notes |-> NoneValue, wardrobe_notes |-> StrValue(<<>>),
            visual_continuity_notes |-> ListValue(<<StrValue(<<"v">>)>>)] }

PageItem(keys, page_number, title) ==
    [kind |-> "object", keys |-> keys, page_number |-> page_number,
     title |-> title, story_text |-> <<"t">>]

SplitKeys == {"page_number", "title", "story_text"}

\* pages numbered 1..n, every field in place
GoodPages(n) == [i \in 1..n |-> PageItem(SplitKeys, IntValue(i), <<"T">>)]

\* what the item numbered i may be instead
OtherItems(i) ==
    { PageItem(SplitKeys, number, <<"T">>) :
          number \in { IntValue(i + 1), IntValue(0), FloatValue(i, TRUE),
                       FloatValue(i, FALSE), NumeralValue(i), WordValue } }
    \cup { PageItem(SplitKeys, IntValue(i), <<" ">>),
           PageItem(SplitKeys \ {"page_number"}, IntValue(i), <<"T">>),
           [kind |-> "text"] }

PageLists ==
    { GoodPages(n) : n \in 0..MaxSplitPages }
    \cup UNION { { [GoodPages(pair[1]) EXCEPT ![pair[2]] = item] :
                        item \in OtherItems(pair[2]) } :
                  pair \in { <<n, i>> \in (1..MaxSplitPages) \X (1..MaxSplitPages) :
                                i <= n } }

Responses ==
    { [kind |-> k, pages |-> <<>>] :
          k \in {"raises", "invalid_json", "no_pages_list", "not_object"} }
    \cup { [kind |-> "pages", pages |-> ps] : ps \in PageLists }
    \cup { [kind |-> "not_object", pages |-> ps] :
           ps \in { GoodPages(n) : n \in 1..MaxSplitPages } }

SplitCalls ==
    { [function |-> "split_story", story_markdown |-> <<"s">>,
       desired_pages |-> desired, target_page_range |-> range,
       response |-> [kind |-> "pages", pages |-> GoodPages(range[1])]] :
          range \in {DEFAULT_PAGE_COUNT_RANGE, SmallRange},
          desired \in {None} \cup { Some(n) : n \in (0 - 1)..(DEFAULT_PAGE_COUNT_RANGE[2] + 2) } }
    \cup { [function |-> "split_story", story_markdown |-> story,
            desired_pages |-> desired, target_page_range |-> SmallRange,
            response |-> response] :
          story \in { <<"s">>, <<" ">> }, desired \in {None, Some(SmallRange[2])},
          response \in Responses }

Calls ==
    { [function |-> "normalize_image_outputs", raw |-> raw] : raw \in ImageRaws }
    \cup { [function |-> "from_mapping", data |-> data] : data \in NotesData }
    \cup SplitCalls

NoPackageChange == UNCHANGED <<original, payload, package>>

\* urls = normalize_image_outputs(raw)
NormalizeImageOutputs ==
    /\ call # None
    /\ outcome = None
    /\ Value(call).function = "normalize_image_outputs"
    /\ outcome' = Some(NormalizeOutputs(Value(call).raw))
    /\ UNCHANGED call
    /\ NoContinuityChange
    /\ NoPackageChange
    /\ NoAssemblyChange
    /\ NoRunsChange

\* KidProfile.from_mapping(data).continuity_notes
NotesFromMapping ==
    /\ call # None
    /\ outcome = None
    /\ Value(call).function = "from_mapping"
    /\ outcome' = Some(from_mapping_continuity_notes(Value(call).data))
    /\ UNCHANGED call
    /\ NoContinuityChange
    /\ NoPackageChange
    /\ NoAssemblyChange
    /\ NoRunsChange

\* splitter.split_story(story_markdown, profile=profile, desired_pages=desired_pages)
SplitStoryCall ==
    /\ call # None
    /\ outcome = None
    /\ Value(call).function = "split_story"
    /\ outcome' = Some(split_story(Value(call).story_markdown,
                                   Value(call).desired_pages,
                                   Value(call).target_page_range,
                                   Value(call).response))
    /\ UNCHANGED call
    /\ NoContinuityChange
    /\ NoPackageChange
    /\ NoAssemblyChange
    /\ NoRunsChange

InitCall ==
    /\ Construct(DefaultConfig, Mia, MiaJpg, 5)
    /\ NoPackage
    /\ NoAssembly
    /\ NoRuns
    /\ \E c \in Calls : call = Some(c)
    /\ outcome = None

NextCall ==
    \/ NormalizeImageOutputs
    \/ NotesFromMapping
    \/ SplitStoryCall

SpecCall == InitCall /\ [][NextCall]_vars

-----------------------------------------------------------------------------
(* normalize_image_outputs, claim C23.                                     *)

\* the leaves of a value from left to right, as strings: an absent leaf
\* dropped, bytes decoded
RECURSIVE LeavesOf(_)
RECURSIVE LeavesOfItems(_)
LeavesOf(raw) ==
    CASE raw.kind = "none" -> <<>>
      [] raw.kind = "bytes" -> <<Decode(raw.text)>>
      [] raw.kind = "list" -> LeavesOfItems(raw.items)
      [] OTHER -> <<raw.text>>

LeavesOfItems(items) ==
    IF items = <<>> THEN <<>>
    ELSE LeavesOf(Head(items)) \o LeavesOfItems(Tail(items))

\* the strings of a list written one after the other
RECURSIVE Written(_)
Written(strings) ==
    IF strings = <<>> THEN <<>> ELSE Head(strings) \o Written(Tail(strings))

\* a non-empty list made only of single-character strings
SingleCharacters(raw) ==
    /\ raw.kind = "list"
    /\ raw.items # <<>>
    /\ \A i \in 1..Len(raw.items) :
           raw.items[i].kind = "str" /\ Len(raw.items[i].text) = 1

\* the value or a list nested in it, at any depth, is made only of
\* single-character strings
RECURSIVE HoldsSingleCharacters(_)
HoldsSingleCharacters(raw) ==
    /\ raw.kind = "list"
    /\ \/ SingleCharacters(raw)
       \/ \E i \in 1..Len(raw.items) : HoldsSingleCharacters(raw.items[i])

\* lists nested in the value, counted along the deepest path
RECURSIVE Depth(_)
RECURSIVE DeepestOf(_)
Depth(raw) == IF raw.kind = "list" THEN 1 + DeepestOf(raw.items) ELSE 0

DeepestOf(items) ==
    IF items = <<>> THEN 0
    ELSE LET first == Depth(Head(items))
             rest == DeepestOf(Tail(items))
         IN  IF first >= rest THEN first ELSE rest

\* C23: normalize_image_outputs returns a flat list of strings that keeps
\* the left-to-right order of the input's leaves: an absent value gives the
\* empty list, a string the one-element list of itself, nested lists are
\* flattened at any depth (the result is exactly the leaves in order unless
\* some list holds only single-character strings, and always spells the
\* leaves in order), and a list made only of single-character strings gives
\* one string, their concatenation.
C23_FlatInLeafOrder ==
    (call # None /\ outcome # None
        /\ Value(call).function = "normalize_image_outputs") =>
        LET raw == Value(call).raw
            urls == Value(outcome)
        IN  /\ raw.kind = "none" => urls = <<>>
            /\ raw.kind = "str" => urls = <<raw.text>>
            /\ SingleCharacters(raw) => urls = <<Written(LeavesOf(raw))>>
            /\ Written(urls) = Written(LeavesOf(raw))
            /\ ~HoldsSingleCharacters(raw) => urls = LeavesOf(raw)
            /\ Len(urls) <= Len(LeavesOf(raw))

\* a list nested three deep with an absent leaf, and a list of two
\* single-character strings inside a list, both normalized
C23_Witness ==
    /\ call # None
    /\ outcome # None
    /\ Value(call).function = "normalize_image_outputs"
    /\ Depth(Value(call).raw) = 3
    /\ Value(outcome) = <<<<"a", "b">>, <<"b">>, <<"c", "d">>>>

-----------------------------------------------------------------------------
(* The continuity notes of a profile, claim C24.                           *)

\* C24: a profile built by KidProfile.from_mapping holds its continuity
\* notes in input order with case-insensitive duplicates removed: no two of
\* its notes are equal when case is ignored.
C24_NotesDeduplicated ==
    (call # None /\ outcome # None /\ Value(call).function = "from_mapping") =>
        LET notes == Value(outcome)
        IN  \A i, j \in 1..Len(notes) :
                i # j => Lower(notes[i]) # Lower(notes[j])

-----------------------------------------------------------------------------
(* StoryPageSplitter.split_story, claims C21 and C22.                      *)

\* C21: split_story rejects with a validation error, before invoking the
\* completion, every integer desired_pages that lies outside the target
\* page range [lower, upper].
C21_OutOfRangeRejected ==
    (call # None /\ outcome # None /\ Value(call).function = "split_story") =>
        LET desired_pages == Value(call).desired_pages
            lower == Value(call).target_page_range[1]
            upper == Value(call).target_page_range[2]
        IN  (desired_pages # None
                /\ ~(lower <= Value(desired_pages) /\ Value(desired_pages) <= upper)) =>
                /\ Value(outcome).status = "ValueError"
                /\ ~Value(outcome).invoked

\* the number a page of the response carries, as the response gives it: an
\* int, a numeral or a float without a fraction is that number
NumberGiven(item) ==
    IF item.kind # "object" \/ "page_number" \notin item.keys THEN None
    ELSE IF item.page_number.kind \in {"int", "numeral"} THEN Some(item.page_number.n)
    ELSE IF item.page_number.kind = "float" /\ item.page_number.exact
    THEN Some(item.page_number.n)
    ELSE None

\* the pages of the response are numbered 1..N in order, lower <= N <= upper
SoNumbered(pages, lower, upper) ==
    /\ lower <= Len(pages) /\ Len(pages) <= upper
    /\ \A i \in 1..Len(pages) : NumberGiven(pages[i]) = Some(i)

\* C22: every page list returned by split_story is numbered 1..N in order
\* with lower <= N <= upper; for any response of the completion whose pages
\* are not so numbered or counted, split_story raises a validation error
\* and returns no pages.
C22_SequentialPages ==
    (call # None /\ outcome # None /\ Value(call).function = "split_story") =>
        LET lower == Value(call).target_page_range[1]
            upper == Value(call).target_page_range[2]
            response == Value(call).response
            result == Value(outcome)
        IN  /\ result.status = "ok" =>
                /\ lower <= Len(result.pages) /\ Len(result.pages) <= upper
                /\ \A i \in 1..Len(result.pages) : result.pages[i].page_number = i
            /\ (result.invoked /\ response.kind # "raises"
                    /\ ~SoNumbered(response.pages, lower, upper)) =>
                   result.status = "ValueError"

-----------------------------------------------------------------------------
(* The references of a page: claims C35 and C36, under Spec.               *)

\* C35: for every page and every reachable continuity state, the primary
\* reference image returned by build_directives is not among that page's
\* additional reference images, also when an image output equals the base
\* reference image.
C35_PrimaryNotAdditional ==
    directives # None =>
        ~In(Value(directives).primary_reference_image,
            Value(directives).additional_reference_images)

\* C36: with history-carrying enabled and capacity >= 1, right after every
\* record_generation call whose first non-blank output is u (surrounding
\* whitespace aside) the front of the reference history is u, so with
\* promotion enabled the next page's primary reference is the previous
\* page's image, also when u was already present in the history.
C36_LatestAtFront ==
    (/\ config.carry_reference_image_forward
     /\ config.reference_history_size >= 1
     /\ calls # <<>>
     /\ FirstUrl(calls[1].image_outputs) # <<>>) =>
        /\ reference_history # <<>>
        /\ Head(reference_history) = FirstUrl(calls[1].image_outputs)
        /\ (config.promote_latest_reference /\ directives # None) =>
               Value(directives).primary_reference_image
                   = FirstUrl(calls[1].image_outputs)

-----------------------------------------------------------------------------
(* Supporting notes carried to the next page: claim C39, under             *)
(* SpecSupporting.                                                         *)

\* the notes of the scene recorded last, as _summarize_supporting_details
\* gives them
LastRecordedNotes == summarize_supporting_details(calls[1].scene.supporting_details)

\* C39: with supporting-detail propagation enabled and
\* supporting_details_history >= 1, the last non-blank supporting note of
\* page N's scene is present in the continuity notes of page N+1's
\* directives.
C39_LastNoteCarried ==
    (/\ config.propagate_supporting_details
     /\ config.supporting_details_history >= 1
     /\ calls # <<>>
     /\ directives # None
     /\ LastRecordedNotes # <<>>
     /\ LastRecordedNotes[Len(LastRecordedNotes)] # <<>>) =>
        In(LastRecordedNotes[Len(LastRecordedNotes)],
           Value(directives).continuity_notes)

\* a history of one entry: page 1 noted R, page 2 noted r and s, and the
\* directives of page 3, whose scene has no details, carry s alone
C39_Witness ==
    /\ config.propagate_supporting_details
    /\ config.supporting_details_history = 1
    /\ config.static_continuity_notes = <<>>
    /\ Len(calls) = 2
    /\ calls[2].scene.supporting_details = <<"R">>
    /\ calls[1].scene.supporting_details
           = <<"-", " ", "r", "\n", "<bullet>", " ", "s", "\r">>
    /\ directives # None
    /\ current_scene = Some([supporting_details |-> <<>>])
    /\ Value(directives).continuity_notes = << <<"s">> >>

-----------------------------------------------------------------------------
(* SpecPolicy: what a run fixes at construction.  Seeds are resolved and   *)
(* directives built at any point between the recorded generations, under   *)
(* every seed policy and identity text.                                    *)

\* an identity text, the same with whitespace around it, and a blank one
IdentityTexts == { <<>>, <<"x">>, <<" ", "x", "\n">>, <<" ">> }

DetailScene == [supporting_details |-> <<"r">>]

PolicyConfigs ==
    { [DefaultConfig EXCEPT !.identity_notes = identity,
                            !.carry_reference_image_forward = carry,
                            !.reference_history_size = 1,
                            !.promote_latest_reference = TRUE,
                            !.locked_seed = locked,
                            !.auto_seed = auto,
                            !.vary_seed_per_page = vary] :
      identity \in IdentityTexts, carry \in BOOLEAN,
      locked \in {None, Some(7)}, auto \in BOOLEAN, vary \in BOOLEAN }

InitPolicy ==
    /\ \E cfg \in PolicyConfigs : Construct(cfg, Mia, MiaJpg, 5)
    /\ NoPackage
    /\ NoAssembly
    /\ NoRuns
    /\ NoCall

NextPolicy ==
    \/ \E scene \in {PlainScene, DetailScene} : BuildDirectives(scene, CurrentPage)
    \/ RecordGeneration(DetailScene, <<Url("a")>>)
    \/ RecordGeneration(PlainScene, <<Url("b")>>)
    \/ \E page_number \in PageNumbers : SeedForPage(page_number)

SpecPolicy == InitPolicy /\ [][NextPolicy]_vars

\* C31: when automatic seeding is disabled and no locked seed is
\* configured, seed resolution yields no seed for every page and the model
\* overrides of every page's directives contain no seed entry.
C31_NoSeedWithoutPolicy ==
    (~config.auto_seed /\ IsNone(config.locked_seed)) =>
        /\ seed # None => IsNone(Value(seed).value)
        /\ directives # None => IsNone(Value(directives).model_overrides.seed)

\* no seed policy: a seed was asked for page 2 and the directives of the
\* second page were built
C31_Witness ==
    /\ ~config.auto_seed
    /\ IsNone(config.locked_seed)
    /\ config.vary_seed_per_page
    /\ Len(calls) = 1
    /\ seed # None
    /\ Value(seed).page_number = 2
    /\ IsNone(Value(seed).value)
    /\ directives # None
    /\ IsNone(Value(directives).model_overrides.seed)

\* C32: the seed resolved for page p depends only on the base seed fixed at
\* construction, p and the vary-per-page flag: resolved again for the same
\* page after any build_directives and record_generation calls it is the
\* same, the directives of page p carry the seed resolved for p, and with
\* vary_seed_per_page false it is the same for all pages.
C32_SeedFixedByConstruction ==
    /\ [](base_seed = InitBaseSeed(config, digest))
    /\ []((seed # None /\ directives # None
              /\ (Value(seed).page_number = CurrentPage
                     \/ ~config.vary_seed_per_page)) =>
             Value(directives).model_overrides.seed = Value(seed).value)
    /\ [][(seed # None /\ seed' # None
              /\ (Value(seed').page_number = Value(seed).page_number
                     \/ ~config.vary_seed_per_page)) =>
             Value(seed').value = Value(seed).value]_vars

\* a varied seed resolved for page 3 before anything was recorded, and the
\* directives of page 3, built two generations later, carrying it
C32_Witness ==
    /\ IsNone(config.locked_seed)
    /\ config.vary_seed_per_page
    /\ Len(calls) = 2
    /\ seed = Some([page_number |-> 3, value |-> Some(7)])
    /\ directives # None
    /\ Value(directives).model_overrides.seed = Some(7)

\* C33 as stated: the identity notes of the directives equal the config's
\* identity text whenever the config provides one.
C33_AsStated ==
    (directives # None /\ config.identity_notes # <<>>) =>
        Value(directives).identity_notes = config.identity_notes

\* C33: the identity_notes of the directives are identical for every page
\* of a run, whatever scenes and image outputs were recorded in between:
\* they are the identity text the state holds, which no call changes, with
\* its surrounding whitespace removed; whenever the config provides an
\* identity text they equal that text with its surrounding whitespace
\* removed (absent when the text is blank).
C33_IdentityFixedForRun ==
    /\ [](directives # None =>
             /\ Value(directives).identity_notes = Strip(identity_notes)
             /\ config.identity_notes # <<>> =>
                    Value(directives).identity_notes = Strip(config.identity_notes))
    /\ [][identity_notes' = identity_notes /\ config' = config]_vars

\* an identity text with whitespace around it, in the directives of the
\* third page, after two generations with different scenes and outputs
C33_Witness ==
    /\ config.identity_notes = <<" ", "x", "\n">>
    /\ Len(calls) = 2
    /\ calls[1].scene # calls[2].scene
    /\ directives # None
    /\ current_scene = Some(DetailScene)
    /\ Value(directives).identity_notes = <<"x">>

\* C37: build_directives leaves the continuity state unchanged (reference
\* history, supporting history, base seed, identity notes), and two
\* consecutive calls with the same scene and page number return equal
\* directives.  A step that leaves a current scene is a build_directives
\* call or leaves everything but the resolved seed alone.
C37_BuildDirectivesReadsOnly ==
    [][current_scene' # None =>
          /\ reference_history' = reference_history
          /\ supporting_history' = supporting_history
          /\ base_seed' = base_seed
          /\ identity_notes' = identity_notes
          /\ (directives # None /\ current_scene' = current_scene
                 /\ Len(calls') = Len(calls)) =>
                 directives' = directives]_vars

\* directives built for a scene with details, over a reference history and
\* a supporting history that are not empty
C37_Witness ==
    /\ config.carry_reference_image_forward
    /\ Len(calls) = 2
    /\ reference_history = << <<"b">> >>
    /\ supporting_history = << <<"r">> >>
    /\ directives # None
    /\ current_scene = Some(DetailScene)
    /\ Value(directives).primary_reference_image = <<"b">>

-----------------------------------------------------------------------------
(* SpecIdentity: the identity notes of the assembled config, from manual   *)
(* overrides, the profile's identity traits and the automatic extraction.  *)

Tall == <<"T", "a", "l", "l">>
Eye == <<"E", "y", "e">>

\* the identity traits a profile declares
IdentityTraits ==
    { <<>>,
      Tall,
      <<"-", " ">> \o Lower(Eye) \o <<"\n", " ">> \o Tall \o <<"\r">> }

\* the identity_note_overrides a caller passes
IdentityOverrides ==
    { <<>>,
      << <<" ", "-", " ">> >>,
      << Lower(Tall) >>,
      << (<<"<bullet>", " ">> \o Eye \o <<"\n">> \o Tall), Lower(Eye), <<"C", "u", "r", "l">> >> }

IdentityProfiles == { [Mia EXCEPT !.identity_traits = traits] : traits \in IdentityTraits }

IdentityArguments ==
    { [NoArguments EXCEPT
          !.automatic_identity_notes = automatic,
          !.identity_note_overrides = overrides,
          !.completion = completion] :
      automatic \in BOOLEAN, overrides \in IdentityOverrides,
      completion \in Completions }

InitIdentity ==
    /\ \E prof \in IdentityProfiles, image \in BuilderImages :
           Construct(DefaultConfig, prof, image, 5)
    /\ NoPackage
    /\ NoRuns
    /\ NoCall
    /\ files \in BuilderFiles
    /\ \E args \in IdentityArguments : arguments = Some(args)
    /\ extraction = None
    /\ assembly = None

NextIdentity ==
    \/ ExtractIdentityNotes
    \/ Assemble

SpecIdentity == InitIdentity /\ [][NextIdentity]_vars

\* the lines of the three sources, in the order of their precedence
IdentitySourceLines ==
    collect_note_lines(Value(arguments).identity_note_overrides)
    \o collect_note_lines_str(profile.identity_traits)
    \o collect_note_lines_str(Value(assembly).auto_identity_notes)

\* C34: the identity notes assembled by build_illustration_continuity_config
\* are the lines of the manual overrides, then the profile's identity
\* traits, then the automatic extraction result, in that order, each source
\* contributing only lines that are not case-insensitive duplicates of
\* earlier ones, each line written as a "- " bullet; the notes are absent
\* when no line remains.
C34_IdentityPrecedence ==
    assembly # None =>
        LET lines == FirstOccurrences(IdentitySourceLines)
            notes == Value(assembly).config.identity_notes
        IN  /\ Value(assembly).identity_notes = notes
            /\ lines = <<>> => notes = <<>>
            /\ lines # <<>> => notes = JoinLines(DashEach(lines))

\* the override tall, the traits eye and Tall, and an extraction that
\* returns Eye: the notes hold tall from the override and eye from the
\* traits; Tall and the extracted Eye are duplicates of earlier lines
C34_Witness ==
    /\ assembly # None
    /\ Value(arguments).identity_note_overrides = << Lower(Tall) >>
    /\ collect_note_lines_str(profile.identity_traits) = <<Lower(Eye), Tall>>
    /\ collect_note_lines_str(Value(assembly).auto_identity_notes) = <<Eye>>
    /\ Value(assembly).config.identity_notes
           = JoinLines(DashEach(<<Lower(Tall), Lower(Eye)>>))

-----------------------------------------------------------------------------
(* Two runs on one orchestrator: claim C38, under SpecRun.                 *)

\* the second run has built the directives of its first page and has not
\* yet recorded that page
SecondRunFirstPage ==
    /\ runs[2].pc \in {"generate_image", "append_asset", "record_generation"}
    /\ runs[2].index = 1

\* C38: continuity state does not leak between runs: in a second run on the
\* same orchestrator, page 1's directives use the base reference image as
\* primary, have no additional references and carry no propagated
\* supporting notes (every continuity note is a static note of the config
\* or a note of page 1's own scene, and the state holds no history),
\* whatever the first run recorded.
C38_NoLeakBetweenRuns ==
    SecondRunFirstPage =>
        LET d == Value(runs[2].directives)
            st == Value(runs[2].state)
            own == summarize_supporting_details(
                       Value(runs[2].scene).supporting_details)
        IN  /\ d.primary_reference_image = Value(inputs).reference_image
            /\ d.additional_reference_images = <<>>
            /\ \A i \in 1..Len(d.continuity_notes) :
                   \/ In(d.continuity_notes[i], own)
                   \/ In(d.continuity_notes[i],
                         SanitizeEach(st.config.static_continuity_notes))
            /\ st.reference_history = <<>>
            /\ st.supporting_history = <<>>

\* the first run returned after two pages, leaving a reference history and
\* a supporting history, and the second run has built the directives of
\* its first page
C38_Witness ==
    /\ SecondRunFirstPage
    /\ runs[1].pc = "returned"
    /\ Len(runs[1].pages) = 2
    /\ Value(runs[1].state).reference_history # <<>>
    /\ Value(runs[1].state).supporting_history # <<>>
    /\ Value(runs[2].directives).primary_reference_image = MiaJpg

====
